---- MODULE Spec2Model ----
(***************************************************************************)
(* The batch messaging job engine of backend/apps/messaging: one           *)
(* MessageJob, its EmailRecipient and SMSRecipient rows, the orchestrator  *)
(* thread process_message_job, the two channel dispatcher threads it       *)
(* launches, finalize_job, and the create and retry API handlers.          *)
(*                                                                         *)
(* Every action is one database statement or one transport call of the     *)
(* code, so that the interleavings of the threads are the interleavings    *)
(* of those statements.  Consecutive reads of one handler (the job load    *)
(* and the two counts/exists queries that follow it) are taken together.   *)
(* Time is logical: timezone.now() reads the number of runs scheduled so   *)
(* far, so it is positive and never decreases.                             *)
(***************************************************************************)
EXTENDS Integers, Sequences, FiniteSets, TLC

\* ------------------------------------------------------------------ bounds
MaxResidences == 2      \* contact records in the store
MaxBatchResidences == 6 \* contact records in the store of the batching runs
MaxBatchSize == 3       \* largest configured batch size of the batching runs
MaxRetries == 1         \* accepted or rejected retry requests per behaviour
MaxReruns == 2          \* manual re-invocations of run (resume)
MaxCrashes == 1         \* process crashes
MaxFaults == 1          \* database errors raised in the orchestrator
MaxDevResidences == 3   \* contact records in the store of the development runs
MaxRecords == 2         \* addresses (numbers) of one contact in the resolver runs
MaxTotal == 50          \* email recipients of a job whose progress is polled
MaxSmsTotal == 10       \* SMS recipients of a job whose progress is polled
MaxPolledFailed == 2    \* failed email recipients of a job whose progress is polled
MaxFinalizeCalls == 2

\* ------------------------------------------------------------------ values
EMAIL == "email"
SMS == "sms"
Channels == {EMAIL, SMS}

NULL == 0               \* a null timestamp; every real timestamp is >= 1
NONE == ""              \* the resolver's "no destination"

PENDING == "pending"
PROCESSING == "processing"
COMPLETED == "completed"
FAILED == "failed"
SENT == "sent"

\* The contact records the store can hold, in id order.  Residence 1 and 2
\* resolve to the same phone number, residence 1 and 3 to the same address.
ResidencePool ==
  << [email_addresses |-> << [email |-> "a1", is_primary |-> FALSE] >>,
      phone_numbers   |-> << [number |-> "p1", is_primary |-> FALSE] >>],
     [email_addresses |-> << [email |-> "a2", is_primary |-> FALSE],
                             [email |-> "a3", is_primary |-> TRUE] >>,
      phone_numbers   |-> << [number |-> "p2", is_primary |-> FALSE],
                             [number |-> "p1", is_primary |-> TRUE] >>],
     [email_addresses |-> << [email |-> "a1", is_primary |-> TRUE] >>,
      phone_numbers   |-> << [number |-> "p3", is_primary |-> FALSE] >>],
     [email_addresses |-> << >>,
      phone_numbers   |-> << [number |-> "p4", is_primary |-> FALSE] >>],
     [email_addresses |-> << [email |-> "a4", is_primary |-> FALSE] >>,
      phone_numbers   |-> << >>],
     [email_addresses |-> << [email |-> "a5", is_primary |-> FALSE] >>,
      phone_numbers   |-> << [number |-> "p3", is_primary |-> TRUE] >>] >>

PoolSize == Len(ResidencePool)

Min(a, b) == IF a < b THEN a ELSE b

ResidenceSets(max) == { SubSeq(ResidencePool, 1, n) : n \in 0..Min(max, PoolSize) }

\* The settings the dispatchers read.  The batch sizes are scaled down from
\* the default of 50 so that a handful of recipients makes several batches.
\* The SMS backend they name is the HTTP provider with its credentials set.
SmallSettings ==
  [EMAIL_BATCH_SIZE |-> 1, EMAIL_BATCH_DELAY |-> 1,
   SMS_BATCH_SIZE |-> 1, SMS_BATCH_DELAY |-> 1,
   EMAIL_BACKEND |-> "smtp",
   SMS_BACKEND |-> "MNotifyBackend", MNOTIFY_CREDENTIALS |-> TRUE]

BatchSettings ==
  { [EMAIL_BATCH_SIZE |-> b, EMAIL_BATCH_DELAY |-> d,
     SMS_BATCH_SIZE |-> b, SMS_BATCH_DELAY |-> d,
     EMAIL_BACKEND |-> "smtp",
     SMS_BACKEND |-> "MNotifyBackend", MNOTIFY_CREDENTIALS |-> TRUE] :
       b \in 1..MaxBatchSize, d \in {0, 1} }

\* The transport configurations: the console backend, the HTTP provider with
\* and without its API key and sender id, and a backend name that does not load.
ConfigSettings ==
  { [SmallSettings EXCEPT !.SMS_BACKEND = b, !.MNOTIFY_CREDENTIALS = c] :
      b \in {"ConsoleSMSBackend", "MNotifyBackend", "NoSuchBackend"}, c \in BOOLEAN }

\* The development settings: both transports write the message to the
\* console and never contact a network.
DevSettings ==
  [SmallSettings EXCEPT !.EMAIL_BACKEND = "console",
                        !.SMS_BACKEND = "ConsoleSMSBackend",
                        !.MNOTIFY_CREDENTIALS = FALSE]

\* The stores of the development runs: up to MaxDevResidences contacts of
\* the pool, in id order, among them contacts with an address and no number
\* and contacts with a number and no address.
DevResidenceSets ==
  { SelectSeq(ResidencePool, LAMBDA res : \E k \in ks : ResidencePool[k] = res) :
      ks \in { c \in SUBSET (1..PoolSize) : Cardinality(c) <= MaxDevResidences } }

\* The address (number) records a contact can have, in id order: any
\* destinations, any of them flagged primary, several or none.
EmailRecords ==
  UNION { [1..n -> [email : {"a1", "a2"}, is_primary : BOOLEAN]] : n \in 0..MaxRecords }

PhoneRecords ==
  UNION { [1..n -> [number : {"p1", "p2"}, is_primary : BOOLEAN]] : n \in 0..MaxRecords }

\* The stores of the resolver runs: any such contact, and one that has both.
ContactResidenceSets ==
  { << [email_addresses |-> es, phone_numbers |-> ps], ResidencePool[1] >> :
      es \in EmailRecords, ps \in PhoneRecords }

\* ------------------------------------------------------------------ state
VARIABLES
  settings,     \* django.conf.settings: batch sizes and delays
  residences,   \* the Residence table
  created,      \* the response to the last create request
  polled,       \* the response to the last status request
  sms_out,      \* the last call of an SMS backend's send or send_bulk
  job,          \* the MessageJob row (id = 0: not created yet)
  rows,         \* rows[ch]: the recipient rows of the job, in id order
  runs,         \* the process_message_job threads, in the order scheduled
  disp,         \* disp[r][ch]: the dispatcher thread of run r for channel ch
  retry,        \* the retry request being handled
  attempts,     \* attempts[ch][k]: transport sends issued so far for row k
  lost,         \* lost[ch][k]: sends for row k whose row write a crash cut off
  retries,      \* retry requests received
  reruns,       \* manual re-invocations of run
  crashes,      \* process crashes
  faults        \* database errors raised

vars == <<settings, residences, created, polled, sms_out, job, rows, runs, disp, retry, attempts, lost,
          retries, reruns, crashes, faults>>

Now == Len(runs)

NoJob ==
  [id |-> 0, channels |-> {}, status |-> PENDING,
   email_total_recipients |-> 0, email_sent_count |-> 0, email_failed_count |-> 0,
   sms_total_recipients |-> 0, sms_sent_count |-> 0, sms_failed_count |-> 0,
   total_recipients |-> 0, sent_count |-> 0, failed_count |-> 0,
   error_message |-> "", started_at |-> NULL, completed_at |-> NULL]

NewRecipient(dest) ==
  [dest |-> dest, status |-> PENDING, error_message |-> "", sent_at |-> NULL]

IdleDispatcher ==
  [pc |-> "off", groups |-> << >>, dests |-> << >>, i |-> 0, j |-> 0,
   out |-> "none", at |-> NULL, log |-> << >>]

IdleRetry ==
  [pc |-> "idle", resp |-> "none", status |-> "", email_failed |-> 0, sms_failed |-> 0,
   email_failed_count |-> 0, sms_failed_count |-> 0, failed_count |-> 0,
   was_failed |-> [ch \in Channels |-> {}]]

NewRun == [pc |-> "lock"]

\* The dispatcher threads of a run that has joined them, or of a dead process.
Ended == [ch \in Channels |-> IdleDispatcher]

NoResponse == [id |-> 0]

NoCall == [call |-> "none"]

NoJobYet ==
  /\ created = "none"
  /\ polled = NoResponse
  /\ sms_out = NoCall
  /\ job = NoJob
  /\ rows = [ch \in Channels |-> << >>]
  /\ runs = << >>
  /\ disp = << >>
  /\ retry = IdleRetry
  /\ attempts = [ch \in Channels |-> << >>]
  /\ lost = [ch \in Channels |-> << >>]
  /\ retries = 0
  /\ reruns = 0
  /\ crashes = 0
  /\ faults = 0

Init ==
  /\ settings = SmallSettings
  /\ residences \in ResidenceSets(MaxResidences)
  /\ NoJobYet

\* The batching runs: more contacts, every batch size, with and without delay.
InitBatch ==
  /\ settings \in BatchSettings
  /\ residences \in ResidenceSets(MaxBatchResidences)
  /\ NoJobYet

\* Every transport configuration, one run, no retry.
InitConfig ==
  /\ settings \in ConfigSettings
  /\ residences \in ResidenceSets(MaxResidences)
  /\ NoJobYet

\* The development configuration: one run, transports that always succeed.
InitDev ==
  /\ settings = DevSettings
  /\ residences \in DevResidenceSets
  /\ NoJobYet

\* The resolver runs: every shape of a contact's records.
InitContacts ==
  /\ settings = DevSettings
  /\ residences \in ContactResidenceSets
  /\ NoJobYet

\* ------------------------------------------------------------------ progress
\* The jobs whose progress is polled: a job of up to MaxTotal email and 0 or
\* MaxSmsTotal SMS recipients whose run was cut off by a crash after `sent`
\* recipients of a channel were sent and `failed` had failed.
PolledRows(total, sent, failed) ==
  [k \in 1..total |->
     IF k <= sent
     THEN [NewRecipient(ToString(k)) EXCEPT !.status = SENT, !.sent_at = 1]
     ELSE IF k <= sent + failed
     THEN [NewRecipient(ToString(k)) EXCEPT !.status = FAILED, !.error_message = "senderr"]
     ELSE NewRecipient(ToString(k))]

PolledResidences(email_total, sms_total) ==
  [k \in 1..(IF email_total > sms_total THEN email_total ELSE sms_total) |->
     [email_addresses |->
        IF k <= email_total
        THEN << [email |-> ToString(k), is_primary |-> FALSE] >> ELSE << >>,
      phone_numbers |->
        IF k <= sms_total
        THEN << [number |-> ToString(k), is_primary |-> FALSE] >> ELSE << >>]]

InitProgress ==
  \E et \in 0..MaxTotal, st \in {0, MaxSmsTotal} :
    \E es \in 0..et, ss \in {0, st} :
      \E ef \in 0..Min(MaxPolledFailed, et - es) :
        /\ et + st > 0
        /\ settings = DevSettings
        /\ residences = PolledResidences(et, st)
        /\ created = "201"
        /\ polled = NoResponse
        /\ sms_out = NoCall
        /\ job = [NoJob EXCEPT !.id = 1,
                               !.channels = {EMAIL : x \in 1..Min(et, 1)}
                                              \cup {SMS : x \in 1..Min(st, 1)},
                               !.status = PROCESSING,
                               !.started_at = 1,
                               !.email_total_recipients = et,
                               !.total_recipients = et,
                               !.email_sent_count = es,
                               !.sent_count = es,
                               !.email_failed_count = ef,
                               !.failed_count = ef,
                               !.sms_total_recipients = st,
                               !.sms_sent_count = ss]
        /\ rows = [ch \in Channels |->
                     IF ch = EMAIL THEN PolledRows(et, es, ef) ELSE PolledRows(st, ss, 0)]
        /\ runs = << [pc |-> "dead"] >>
        /\ disp = << Ended >>
        /\ retry = IdleRetry
        /\ attempts = [ch \in Channels |->
                         [k \in DOMAIN rows[ch] |->
                            IF rows[ch][k].status = PENDING THEN 0 ELSE 1]]
        /\ lost = [ch \in Channels |-> [k \in DOMAIN rows[ch] |-> 0]]
        /\ retries = 0
        /\ reruns = 0
        /\ crashes = 1
        /\ faults = 0

RECURSIVE Pow2(_)
Pow2(n) == IF n = 0 THEN 1 ELSE 2 * Pow2(n - 1)

\* A float is kept as the 53 digits of its significand, in three limbs
\* hi * 2^36 + mid * 2^18 + lo (hi < 2^17, mid and lo < 2^18), and the
\* exponent of the last digit, so that no intermediate value needs more
\* than 31 bits.
LIMB == Pow2(18)

\* Round half to even: the significand is raised by one in the last place
\* when the discarded part is above one half of it, or is one half and the
\* last digit is odd.
RoundUp(x, above_half, at_half) ==
  IF above_half \/ (at_half /\ x.lo % 2 = 1)
  THEN LET lo == (x.lo + 1) % LIMB
           mid == IF lo = 0 THEN (x.mid + 1) % LIMB ELSE x.mid
           hi == IF lo = 0 /\ mid = 0 THEN x.hi + 1 ELSE x.hi
       IN  IF hi = Pow2(17)
           THEN [hi |-> Pow2(16), mid |-> 0, lo |-> 0, exp |-> x.exp + 1]
           ELSE [hi |-> hi, mid |-> mid, lo |-> lo, exp |-> x.exp]
  ELSE x

\* The least a with p * 2^a >= t, and the greatest b with t * 2^b <= p.
RECURSIVE ShiftUp(_, _)
ShiftUp(p, t) == IF p >= t THEN 0 ELSE 1 + ShiftUp(2 * p, t)

RECURSIVE ShiftDown(_, _)
ShiftDown(p, t) == IF 2 * t > p THEN 0 ELSE 1 + ShiftDown(p, 2 * t)

\* `p / t` of two positive ints below 2^13: the correctly rounded float
\* quotient, by long division of n / d (1 <= n / d < 2) to 52 digits after
\* the point.
TrueDiv(p, t) ==
  LET a == ShiftUp(p, t)
      b == ShiftDown(p, t)
      n == p * Pow2(a)
      d == t * Pow2(b)
      hi == (n * Pow2(16)) \div d
      r1 == (n * Pow2(16)) % d
      mid == (r1 * LIMB) \div d
      r2 == (r1 * LIMB) % d
      lo == (r2 * LIMB) \div d
      r3 == (r2 * LIMB) % d
  IN  RoundUp([hi |-> hi, mid |-> mid, lo |-> lo, exp |-> b - a - 52],
              2 * r3 > d, 2 * r3 = d)

\* `x * 100` for a float x: the exact product, which has 6 or 7 digits more
\* than the significand holds, shifted right by that many and rounded.
Times100(x) ==
  LET lo == (x.lo * 100) % LIMB
      c1 == (x.lo * 100) \div LIMB
      mid == (x.mid * 100 + c1) % LIMB
      c2 == (x.mid * 100 + c1) \div LIMB
      top == x.hi * 100 + c2
      s == IF top >= Pow2(23) THEN 7 ELSE 6
      w == Pow2(s)
      dropped == lo % w
  IN  RoundUp([hi |-> top \div w,
               mid |-> mid \div w + (top % w) * (LIMB \div w),
               lo |-> lo \div w + (mid % w) * (LIMB \div w),
               exp |-> x.exp + s],
              2 * dropped > w, 2 * dropped = w)

\* int(x) of a positive float below 2^17: the digits before the point.
Trunc(x) ==
  LET shift == -x.exp - 36
  IN  IF shift >= 17 THEN 0 ELSE x.hi \div Pow2(shift)

\* `int(processed / total * 100) if total > 0 else 0`
progress_percent(processed, total) ==
  IF total = 0 THEN 0
  ELSE IF processed = 0 THEN 0
  ELSE Trunc(Times100(TrueDiv(processed, total)))

\* MessageJob.get_overall_progress
get_overall_progress(j) ==
  progress_percent(j.email_sent_count + j.email_failed_count
                     + j.sms_sent_count + j.sms_failed_count,
                   j.email_total_recipients + j.sms_total_recipients)

\* MessageJobViewSet.status: the counters of the job and the progress
\* computed from them.
Status ==
  /\ job.id # 0
  /\ polled' =
       [id |-> job.id,
        status |-> job.status,
        email_total_recipients |-> job.email_total_recipients,
        email_sent_count |-> job.email_sent_count,
        email_failed_count |-> job.email_failed_count,
        email_progress_percent |->
          progress_percent(job.email_sent_count + job.email_failed_count,
                           job.email_total_recipients),
        sms_total_recipients |-> job.sms_total_recipients,
        sms_sent_count |-> job.sms_sent_count,
        sms_failed_count |-> job.sms_failed_count,
        sms_progress_percent |->
          progress_percent(job.sms_sent_count + job.sms_failed_count,
                           job.sms_total_recipients),
        overall_progress_percent |-> get_overall_progress(job)]
  /\ UNCHANGED <<settings, residences, created, sms_out, job, rows, runs, disp, retry,
                 attempts, lost, retries, reruns, crashes, faults>>

\* ------------------------------------------------------------------ SMS backends
\* What the provider call of MNotifyBackend can do: requests.post returns a
\* response with code 2000 ("none"), times out, fails to connect, returns an
\* HTTP error status (raise_for_status), or returns a response with another
\* code.  The first three failures are requests.RequestException.
ProviderFaults == {"none", "timeout", "connection", "http_error", "provider_error"}

RequestException == {"timeout", "connection", "http_error"}

SMSERROR == "SMSError"

\* The backends of the calls: a configuration whose backend class loads.
InitBackend ==
  /\ settings \in { c \in ConfigSettings :
                       c.SMS_BACKEND \in {"ConsoleSMSBackend", "MNotifyBackend"} }
  /\ residences = << >>
  /\ NoJobYet

\* ConsoleSMSBackend.send / MNotifyBackend.send: what the call returns
\* ("sent", "failed"), or SMSERROR when it raises SMSError.
send(fail_silently, fault) ==
  IF settings.SMS_BACKEND = "ConsoleSMSBackend" THEN "sent"
  ELSE IF ~settings.MNOTIFY_CREDENTIALS THEN SMSERROR
  ELSE IF fault \in RequestException
  THEN IF fail_silently THEN "failed" ELSE SMSERROR
  ELSE IF fault = "provider_error" THEN SMSERROR
  ELSE "sent"

\* What a call hands to its caller: the list of results, or the exception.
Returned(outcomes) == [raised |-> "none", outcomes |-> outcomes]

Raised(exception) == [raised |-> exception, outcomes |-> << >>]

\* BaseSMSBackend.send_bulk, which ConsoleSMSBackend inherits: one send per
\* recipient; an SMSError of a send is re-raised, or with fail_silently
\* becomes a failed result.  MNotifyBackend.send_bulk: one provider call for
\* all recipients.
send_bulk(fail_silently, recipients, fault) ==
  IF settings.SMS_BACKEND = "ConsoleSMSBackend"
  THEN IF ~fail_silently
          /\ \E m \in DOMAIN recipients : send(fail_silently, fault) = SMSERROR
       THEN Raised(SMSERROR)
       ELSE Returned([m \in DOMAIN recipients |->
                        IF send(fail_silently, fault) = SMSERROR THEN "failed"
                        ELSE send(fail_silently, fault)])
  ELSE IF ~settings.MNOTIFY_CREDENTIALS THEN Raised(SMSERROR)
  ELSE IF recipients = << >> THEN Returned(<< >>)
  ELSE IF fault \in RequestException
  THEN IF fail_silently
       THEN Returned([m \in DOMAIN recipients |-> "failed"])
       ELSE Raised(SMSERROR)
  ELSE IF fault = "provider_error" THEN Raised(SMSERROR)
  ELSE Returned([m \in DOMAIN recipients |-> "sent"])

\* A caller sends one message through the configured backend.
CallSend(fail_silently, fault) ==
  /\ sms_out' = [call |-> "send", fail_silently |-> fail_silently, fault |-> fault,
                 recipients |-> << "p1" >>,
                 result |-> IF send(fail_silently, fault) = SMSERROR
                            THEN Raised(SMSERROR)
                            ELSE Returned(<< send(fail_silently, fault) >>)]
  /\ UNCHANGED <<settings, residences, created, polled, job, rows, runs, disp, retry,
                 attempts, lost, retries, reruns, crashes, faults>>

\* A caller sends one message to a list of numbers.
CallSendBulk(fail_silently, recipients, fault) ==
  /\ sms_out' = [call |-> "send_bulk", fail_silently |-> fail_silently, fault |-> fault,
                 recipients |-> recipients,
                 result |-> send_bulk(fail_silently, recipients, fault)]
  /\ UNCHANGED <<settings, residences, created, polled, job, rows, runs, disp, retry,
                 attempts, lost, retries, reruns, crashes, faults>>

\* ------------------------------------------------------------------ helpers
Ids(s) == [k \in 1..Len(s) |-> k]

InSeq(x, s) == \E m \in DOMAIN s : s[m] = x

RECURSIVE SumSeq(_)
SumSeq(s) == IF s = << >> THEN 0 ELSE Head(s) + SumSeq(Tail(s))

\* A start that returns only when the run it started has ended.
start_and_wait ==
  /\ runs' = Append(runs, [pc |-> "done"])
  /\ disp' = Append(disp, Ended)

\* start_message_job: schedule one more orchestrator thread and return.
start_message_job ==
  /\ runs' = Append(runs, NewRun)
  /\ disp' = Append(disp, [ch \in Channels |-> IdleDispatcher])

Live(r) == runs[r].pc \notin {"done", "dead"}

NoLiveRun == \A r \in DOMAIN runs : ~Live(r)

\* ------------------------------------------------------------------ contact resolver
\* A resolver that ignores the primary flag.
first_email(residence) ==
  IF residence.email_addresses # << >> THEN residence.email_addresses[1].email ELSE NONE

\* get_recipient_email: the first record flagged primary, else the first
\* record, else none.
get_recipient_email(residence) ==
  LET emails == residence.email_addresses
      primary == SelectSeq(emails, LAMBDA e : e.is_primary)
  IN  IF primary # << >> THEN primary[1].email
      ELSE IF emails # << >> THEN emails[1].email
      ELSE NONE

\* get_recipient_phone: the same policy over the phone numbers.
get_recipient_phone(residence) ==
  LET phones == residence.phone_numbers
      primary == SelectSeq(phones, LAMBDA p : p.is_primary)
  IN  IF primary # << >> THEN primary[1].number
      ELSE IF phones # << >> THEN phones[1].number
      ELSE NONE

\* ------------------------------------------------------------------ create
\* The residences the create handler queries for a channel: those with at
\* least one address (number), when the channel was requested.
email_residences(channels) ==
  IF EMAIL \in channels
  THEN SelectSeq(residences, LAMBDA r : r.email_addresses # << >>)
  ELSE << >>

sms_residences(channels) ==
  IF SMS \in channels
  THEN SelectSeq(residences, LAMBDA r : r.phone_numbers # << >>)
  ELSE << >>

\* The recipient rows built from the queried residences: one row per
\* residence whose resolver result is not none.
email_recipients(channels) ==
  LET rs == email_residences(channels)
      ok == SelectSeq(rs, LAMBDA r : get_recipient_email(r) # NONE)
  IN  [k \in 1..Len(ok) |-> NewRecipient(get_recipient_email(ok[k]))]

\* A create that builds an SMS row for every contact of the store.
every_residence_sms(channels) ==
  [k \in 1..Len(residences) |-> NewRecipient(get_recipient_phone(residences[k]))]

sms_recipients(channels) ==
  LET rs == sms_residences(channels)
      ok == SelectSeq(rs, LAMBDA r : get_recipient_phone(r) # NONE)
  IN  [k \in 1..Len(ok) |-> NewRecipient(get_recipient_phone(ok[k]))]

\* The create requests: the channels list may be left out, the subject may
\* be left out or blank.  The body, which is required and only carried into
\* the messages, is not modelled.
MISSING == "<missing>"

Requests ==
  { q \in [has_channels : BOOLEAN, channels : SUBSET Channels,
           subject : {MISSING, "", "hello"}] :
      q.has_channels \/ q.channels = {} }

\* The channels field of MessageJobCreateSerializer: both channels by default.
validated_channels(request) ==
  IF request.has_channels THEN request.channels ELSE Channels

\* A validation that does not ask for a subject.
validate_without_subject(request) == validated_channels(request) # {}

\* MessageJobCreateSerializer.validate: at least one channel, and a subject
\* when email is one of them.
validate(request) ==
  /\ validated_channels(request) # {}
  /\ ~(EMAIL \in validated_channels(request) /\ request.subject \in {MISSING, ""})

\* The 400 responses of create: nothing is written and no run is started.
CreateRejected ==
  /\ created' = "400"
  /\ UNCHANGED <<job, rows, runs, disp, attempts, lost>>

\* MessageJobViewSet.create.
Create(request) ==
  /\ job.id = 0
  /\ LET channels == validated_channels(request)
         er == email_recipients(channels)
         sr == sms_recipients(channels)
     IN  IF ~validate(request)
         THEN CreateRejected
         ELSE IF email_residences(channels) = << >> /\ sms_residences(channels) = << >>
         THEN CreateRejected
         ELSE /\ created' = "201"
              /\ rows' = [rows EXCEPT ![EMAIL] = er, ![SMS] = sr]
              /\ attempts' = [ch \in Channels |->
                                [k \in 1..Len(IF ch = EMAIL THEN er ELSE sr) |-> 0]]
              /\ lost' = attempts'
              /\ job' = [NoJob EXCEPT !.id = 1,
                                      !.channels = channels,
                                      !.email_total_recipients = Len(er),
                                      !.total_recipients = Len(er),
                                      !.sms_total_recipients = Len(sr)]
              /\ start_message_job
  /\ UNCHANGED <<settings, residences, polled, sms_out, retry, retries, reruns, crashes, faults>>

\* ------------------------------------------------------------------ contact update
\* What an update of a contact can carry for its records: the one address and
\* number replaced by others, a new primary address and number added, or the
\* primary flag of every record switched.
Replaced(residence) ==
  [email_addresses |-> << [email |-> "b1", is_primary |-> FALSE] >>,
   phone_numbers |-> << [number |-> "q1", is_primary |-> FALSE] >>]

Added(residence) ==
  [email_addresses |->
     Append(residence.email_addresses, [email |-> "b2", is_primary |-> TRUE]),
   phone_numbers |->
     Append(residence.phone_numbers, [number |-> "q2", is_primary |-> TRUE])]

Reflagged(residence) ==
  [email_addresses |->
     [m \in DOMAIN residence.email_addresses |->
        [residence.email_addresses[m] EXCEPT !.is_primary = ~@]],
   phone_numbers |->
     [m \in DOMAIN residence.phone_numbers |->
        [residence.phone_numbers[m] EXCEPT !.is_primary = ~@]]]

Updates(residence) == {Replaced(residence), Added(residence), Reflagged(residence)}

\* An update that also rewrites the destination of the contact's recipient
\* rows with what the contact resolves to now.
UpdateCascading(k, data) ==
  /\ residences' = [residences EXCEPT ![k] = data]
  /\ rows' = [rows EXCEPT
               ![EMAIL] = [m \in DOMAIN @ |->
                             IF m = k THEN [@[m] EXCEPT !.dest = get_recipient_email(data)]
                             ELSE @[m]],
               ![SMS] = [m \in DOMAIN @ |->
                           IF m = k THEN [@[m] EXCEPT !.dest = get_recipient_phone(data)]
                           ELSE @[m]]]
  /\ UNCHANGED <<settings, polled, sms_out, created, job, runs, disp, retry, attempts, lost, retries, reruns, crashes, faults>>

\* ResidenceSerializer.update with both record lists given: the contact's
\* records are deleted and created anew from the request.
Update(k, data) ==
  /\ residences' = [residences EXCEPT ![k] = data]
  /\ UNCHANGED <<settings, polled, sms_out, created, job, rows, runs, disp, retry, attempts, lost, retries, reruns, crashes, faults>>

\* No contact has been updated since the store was set up.
Unedited == residences \in ResidenceSets(MaxResidences)

\* ------------------------------------------------------------------ orchestrator
\* A status transition that stamps started_at on every run.
StartedAtNow(old, now) == now

\* The started_at written by the status transition: kept when already set.
StartedAt(old, now) == IF old # NULL THEN old ELSE now

\* A run that never takes the early return.
NeverShortCircuit(status) == FALSE

\* `if job.status == MessageJob.Status.COMPLETED: return`
ShortCircuit(status) == status = COMPLETED

\* process_message_job, the transaction under select_for_update.
RunLock(r) ==
  /\ Live(r)
  /\ runs[r].pc = "lock"
  /\ IF ShortCircuit(job.status)
     THEN /\ runs' = [runs EXCEPT ![r].pc = "done"]
          /\ UNCHANGED job
     ELSE /\ job' = [job EXCEPT !.status = PROCESSING,
                                !.started_at = StartedAt(job.started_at, Now)]
          /\ runs' = [runs EXCEPT ![r].pc = "launch"]
  /\ UNCHANGED <<settings, residences, polled, sms_out, created, rows, disp, retry, attempts, lost, retries, reruns, crashes, faults>>

\* The job-row lock: select_for_update() inside transaction.atomic() holds
\* the row from the select to the end of the with block.
HoldsLock(r) == runs[r].pc = "locked"

NoLockHeld == \A r \in DOMAIN runs : ~HoldsLock(r)

\* A run that starts its dispatcher threads inside the with block.
RunAcquireLaunching(r) ==
  /\ Live(r)
  /\ runs[r].pc = "lock"
  /\ NoLockHeld
  /\ runs' = [runs EXCEPT ![r].pc = "locked"]
  /\ disp' = [disp EXCEPT ![r] =
                [ch \in Channels |->
                   IF ch \in job.channels
                   THEN [IdleDispatcher EXCEPT !.pc = "fetch"]
                   ELSE IdleDispatcher]]
  /\ UNCHANGED <<settings, residences, polled, sms_out, created, job, rows, retry, attempts, lost, retries, reruns, crashes, faults>>

\* MessageJob.objects.select_for_update().get(id=job_id): the run waits
\* until no other transaction holds the row, then holds it.
RunAcquire(r) ==
  /\ Live(r)
  /\ runs[r].pc = "lock"
  /\ NoLockHeld
  /\ runs' = [runs EXCEPT ![r].pc = "locked"]
  /\ UNCHANGED <<settings, residences, polled, sms_out, created, job, rows, disp, retry, attempts, lost, retries, reruns, crashes, faults>>

\* The rest of the with block: the early return, or the status transition
\* and its save; leaving the block commits and releases the row.
RunCommit(r) ==
  /\ Live(r)
  /\ HoldsLock(r)
  /\ IF ShortCircuit(job.status)
     THEN /\ runs' = [runs EXCEPT ![r].pc = "done"]
          /\ UNCHANGED job
     ELSE /\ job' = [job EXCEPT !.status = PROCESSING,
                                !.started_at = StartedAt(job.started_at, Now)]
          /\ runs' = [runs EXCEPT ![r].pc = "launch"]
  /\ UNCHANGED <<settings, residences, polled, sms_out, created, rows, disp, retry, attempts, lost, retries, reruns, crashes, faults>>

\* An except branch that records the failure without the error text.
MarkFailedNoText(j, now) == [j EXCEPT !.status = FAILED, !.completed_at = now]

\* The fields written by the except branches of process_message_job and
\* finalize_job.
MarkFailed(j, now) ==
  [j EXCEPT !.status = FAILED, !.error_message = "dberr", !.completed_at = now]

\* A database error inside the locked transaction: the transaction rolls
\* back and the except branch of process_message_job records the failure.
RunLockFault(r) ==
  /\ Live(r)
  /\ runs[r].pc = "lock"
  /\ faults < MaxFaults
  /\ faults' = faults + 1
  /\ job' = MarkFailed(job, Now)
  /\ runs' = [runs EXCEPT ![r].pc = "done"]
  /\ UNCHANGED <<settings, residences, polled, sms_out, created, rows, disp, retry, attempts, lost, retries, reruns, crashes>>

\* process_message_job starts one thread per enabled channel.
RunLaunch(r) ==
  /\ Live(r)
  /\ runs[r].pc = "launch"
  /\ disp' = [disp EXCEPT ![r] =
                [ch \in Channels |->
                   IF ch \in job.channels
                   THEN [IdleDispatcher EXCEPT !.pc = "fetch"]
                   ELSE IdleDispatcher]]
  /\ runs' = [runs EXCEPT ![r].pc = "join"]
  /\ UNCHANGED <<settings, residences, polled, sms_out, created, job, rows, retry, attempts, lost, retries, reruns, crashes, faults>>

\* A wait that is over when one of the threads has ended.
JoinedOne(r) == \E ch \in Channels : disp[r][ch].pc \in {"off", "done"}

\* `for thread in threads: thread.join()` has returned: every thread the
\* run started has ended.
Joined(r) == \A ch \in Channels : disp[r][ch].pc \in {"off", "done"}

HasPending(ch) == \E k \in DOMAIN rows[ch] : rows[ch][k].status = PENDING

\* A finalize_job that completes the job whatever is pending.
ShouldCompleteAlways(email_pending, sms_pending) == TRUE

\* A finalize_job that never completes the job.
ShouldCompleteNever(email_pending, sms_pending) == FALSE

\* finalize_job decides to complete the job exactly when no pending row is left.
ShouldComplete(email_pending, sms_pending) == ~email_pending /\ ~sms_pending

\* A finalize_job that marks the job failed when it finds a pending recipient.
FinalizeCheckFailing(r) ==
  /\ Live(r)
  /\ runs[r].pc = "join"
  /\ Joined(r)
  /\ IF ShouldComplete(HasPending(EMAIL), HasPending(SMS))
     THEN /\ runs' = [runs EXCEPT ![r].pc = "fin_save"]
          /\ UNCHANGED job
     ELSE /\ runs' = [runs EXCEPT ![r].pc = "done"]
          /\ job' = MarkFailedNoText(job, Now)
  /\ disp' = [disp EXCEPT ![r] = Ended]
  /\ UNCHANGED <<settings, residences, polled, sms_out, created, rows, retry, attempts, lost, retries, reruns, crashes, faults>>

\* thread.join() for every launched thread, then finalize_job up to its
\* two exists() queries.
FinalizeCheck(r) ==
  /\ Live(r)
  /\ runs[r].pc = "join"
  /\ Joined(r)
  /\ runs' = [runs EXCEPT ![r].pc =
                IF ShouldComplete(HasPending(EMAIL), HasPending(SMS))
                THEN "fin_save" ELSE "done"]
  /\ disp' = [disp EXCEPT ![r] = Ended]
  /\ UNCHANGED <<settings, residences, polled, sms_out, created, job, rows, retry, attempts, lost, retries, reruns, crashes, faults>>

\* A finalize_job that also adds the recipients it finds sent to sent_count.
FinalizeSaveCounting(r) ==
  /\ Live(r)
  /\ runs[r].pc = "fin_save"
  /\ job' = [job EXCEPT !.status = COMPLETED, !.completed_at = Now,
                        !.sent_count =
                          @ + Cardinality({k \in DOMAIN rows[EMAIL] :
                                             rows[EMAIL][k].status = SENT})]
  /\ runs' = [runs EXCEPT ![r].pc = "done"]
  /\ UNCHANGED <<settings, residences, polled, sms_out, created, rows, disp, retry, attempts, lost, retries, reruns, crashes, faults>>

\* finalize_job: job.save(update_fields=['status', 'completed_at']).
FinalizeSave(r) ==
  /\ Live(r)
  /\ runs[r].pc = "fin_save"
  /\ job' = [job EXCEPT !.status = COMPLETED, !.completed_at = Now]
  /\ runs' = [runs EXCEPT ![r].pc = "done"]
  /\ UNCHANGED <<settings, residences, polled, sms_out, created, rows, disp, retry, attempts, lost, retries, reruns, crashes, faults>>

\* A database error inside finalize_job: its except branch records the failure.
FinalizeFault(r) ==
  /\ Live(r)
  /\ runs[r].pc = "join"
  /\ Joined(r)
  /\ faults < MaxFaults
  /\ faults' = faults + 1
  /\ job' = MarkFailed(job, Now)
  /\ runs' = [runs EXCEPT ![r].pc = "done"]
  /\ disp' = [disp EXCEPT ![r] = Ended]
  /\ UNCHANGED <<settings, residences, polled, sms_out, created, rows, retry, attempts, lost, retries, reruns, crashes>>

\* ------------------------------------------------------------------ dispatchers
batch_size(ch) ==
  IF ch = EMAIL THEN settings.EMAIL_BATCH_SIZE ELSE settings.SMS_BATCH_SIZE

batch_delay(ch) ==
  IF ch = EMAIL THEN settings.EMAIL_BATCH_DELAY ELSE settings.SMS_BATCH_DELAY

\* A fetch that forgets the status filter: every row of the job.
all_recipients(rs) == Ids(rs)

\* pending_recipients: the ids of the rows that are pending, in id order.
pending_recipients(rs) == SelectSeq(Ids(rs), LAMBDA k : rs[k].status = PENDING)

\* A grouping that forgets to deduplicate: one destination per snapshot row.
all_numbers(rs, snapshot) == [m \in 1..Len(snapshot) |-> rs[snapshot[m]].dest]

\* unique_numbers: the distinct numbers of the snapshot, in the order of
\* their first occurrence (the keys of phone_to_recipients).
RECURSIVE unique_numbers(_, _)
unique_numbers(rs, snapshot) ==
  IF snapshot = << >> THEN << >>
  ELSE LET rest == unique_numbers(rs, SubSeq(snapshot, 1, Len(snapshot) - 1))
           number == rs[snapshot[Len(snapshot)]].dest
       IN  IF \E m \in DOMAIN rest : rest[m] = number
           THEN rest
           ELSE Append(rest, number)

\* A dispatcher that works through its destinations newest first.
newest_first(ch, rs, snapshot) ==
  LET n == Len(snapshot)
  IN  IF ch = EMAIL
      THEN [m \in 1..n |-> rs[snapshot[n + 1 - m]].dest]
      ELSE LET u == unique_numbers(rs, snapshot)
           IN  [m \in 1..Len(u) |-> u[Len(u) + 1 - m]]

\* The destinations a dispatcher iterates over: every pending email row is
\* its own destination, the SMS rows are deduplicated by number.
destinations(ch, rs, snapshot) ==
  IF ch = EMAIL
  THEN [m \in 1..Len(snapshot) |-> rs[snapshot[m]].dest]
  ELSE unique_numbers(rs, snapshot)

\* A dispatcher that gathers the rows of a destination by address for email
\* as it does by number for SMS.
grouped_by_address(ch, rs, snapshot, dests) ==
  [m \in 1..Len(dests) |-> SelectSeq(snapshot, LAMBDA k : rs[k].dest = dests[m])]

\* The rows each destination stands for: the row itself for email,
\* phone_to_recipients[number] for SMS.
recipients_for(ch, rs, snapshot, dests) ==
  IF ch = EMAIL
  THEN [m \in 1..Len(snapshot) |-> << snapshot[m] >>]
  ELSE [m \in 1..Len(dests) |->
          SelectSeq(snapshot, LAMBDA k : rs[k].dest = dests[m])]

\* A throttle that also sleeps before the first batch.
NeedsSleepAlways(batch_num, delay) == delay > 0

\* `if batch_num > 0 and batch_delay > 0: time.sleep(batch_delay)`
NeedsSleep(batch_num, delay) == batch_num > 0 /\ delay > 0

\* Where the loops stand before destination i (1-based) of n: past the end,
\* at the sleep that opens a batch, or at the send.
LoopPc(ch, i, n) ==
  IF i > n THEN "done"
  ELSE IF (i - 1) % batch_size(ch) = 0
          /\ NeedsSleep((i - 1) \div batch_size(ch), batch_delay(ch))
       THEN "sleep"
       ELSE "send"

SleepEntry == [dest |-> NONE, out |-> "sleep"]

\* A dispatcher that stops as soon as a dispatcher of its run has aborted.
RunningUnlessAborted(r, ch, pc) ==
  /\ Live(r)
  /\ disp[r][ch].pc = pc
  /\ \A o \in Channels : disp[r][o].out # "abort"

Running(r, ch, pc) == Live(r) /\ disp[r][ch].pc = pc

\* get_sms_backend: the class named by SMS_BACKEND is imported; a name that
\* does not resolve raises SMSError.
BackendLoads == settings.SMS_BACKEND \in {"ConsoleSMSBackend", "MNotifyBackend"}

\* What sms_backend.send of the dispatcher, whose backend was made by
\* get_sms_backend() with fail_silently off, does on a provider fault: it
\* returns ("ok") or raises SMSError ("err"; "timeout" when the provider call
\* was made and timed out).
TransportOut(fault) ==
  IF send(FALSE, fault) # SMSERROR THEN "ok"
  ELSE IF fault = "timeout" /\ settings.MNOTIFY_CREDENTIALS THEN "timeout"
  ELSE "err"

\* What the transport call of a channel can do: the console backend always
\* returns, MNotifyBackend.send raises at once without its credentials and
\* otherwise returns or raises with the provider; send_mail returns or raises
\* (with a timeout of the mail server as with any other error), and with the
\* console email backend it returns.
Outcomes(ch) ==
  IF ch = EMAIL
  THEN IF settings.EMAIL_BACKEND = "console" THEN {"ok"} ELSE {"ok", "err", "timeout"}
  ELSE { TransportOut(fault) : fault \in ProviderFaults }

\* The outer except of a dispatcher: the error is logged and the thread ends.
Aborted(d) == [d EXCEPT !.pc = "done", !.out = "abort"]

\* get_sms_backend() raises in process_sms_recipients, before the snapshot.
BackendError(r) ==
  /\ Running(r, SMS, "fetch")
  /\ ~BackendLoads
  /\ disp' = [disp EXCEPT ![r][SMS] = Aborted(@)]
  /\ UNCHANGED <<settings, residences, polled, sms_out, created, job, rows, runs, retry, attempts, lost, retries, reruns, crashes, faults>>

\* A database error in the job load or the snapshot query of a dispatcher.
FetchFault(r, ch) ==
  /\ Running(r, ch, "fetch")
  /\ faults < MaxFaults
  /\ faults' = faults + 1
  /\ disp' = [disp EXCEPT ![r][ch] = Aborted(@)]
  /\ UNCHANGED <<settings, residences, polled, sms_out, created, job, rows, runs, retry, attempts, lost, retries, reruns, crashes>>

\* The dispatcher loads the job and its settings and takes the snapshot of
\* the pending rows.
Fetch(r, ch) ==
  /\ Running(r, ch, "fetch")
  /\ ch = SMS => BackendLoads
  /\ LET snapshot == pending_recipients(rows[ch])
         dests == destinations(ch, rows[ch], snapshot)
     IN  disp' = [disp EXCEPT ![r][ch] =
                    [@ EXCEPT !.dests = dests,
                              !.groups = recipients_for(ch, rows[ch], snapshot, dests),
                              !.i = 1,
                              !.pc = LoopPc(ch, 1, Len(dests))]]
  /\ UNCHANGED <<settings, residences, polled, sms_out, created, job, rows, runs, retry, attempts, lost, retries, reruns, crashes, faults>>

\* time.sleep(batch_delay) before a batch.
Sleep(r, ch) ==
  /\ Running(r, ch, "sleep")
  /\ disp' = [disp EXCEPT ![r][ch] =
                [@ EXCEPT !.log = Append(@, SleepEntry), !.pc = "send"]]
  /\ UNCHANGED <<settings, residences, polled, sms_out, created, job, rows, runs, retry, attempts, lost, retries, reruns, crashes, faults>>

\* send_mail(...) or sms_backend.send(...): the transport returns ("ok") or
\* raises ("err"); timezone.now() is read right after it.
Send(r, ch, out) ==
  /\ Running(r, ch, "send")
  /\ out \in Outcomes(ch)
  /\ LET d == disp[r][ch]
     IN  /\ disp' = [disp EXCEPT ![r][ch] =
                    [d EXCEPT !.out = out,
                              !.at = Now,
                              !.j = 1,
                              !.log = Append(@, [dest |-> d.dests[d.i], out |-> out]),
                              !.pc = "save"]]
         /\ attempts' = [attempts EXCEPT ![ch] =
                           [k \in DOMAIN @ |->
                              IF InSeq(k, d.groups[d.i]) THEN @[k] + 1 ELSE @[k]]]
  /\ UNCHANGED <<settings, residences, polled, sms_out, created, job, rows, runs, retry, lost, retries, reruns, crashes, faults>>

\* A row write that takes a send that timed out for a send that returned.
SavedRowTimeoutSent(row, out, at) ==
  IF out \in {"ok", "timeout"}
  THEN [row EXCEPT !.status = SENT, !.sent_at = at]
  ELSE [row EXCEPT !.status = FAILED, !.error_message = "senderr"]

\* A row write that marks the failure without recording the error text.
SavedRowNoError(row, out, at) ==
  IF out = "ok"
  THEN [row EXCEPT !.status = SENT, !.sent_at = at]
  ELSE [row EXCEPT !.status = FAILED]

\* recipient.save(update_fields=[...]) of the in-memory row object: status
\* and sent_at after a send that returned, status and error_message after
\* one that raised.
SavedRow(row, out, at) ==
  IF out = "ok"
  THEN [row EXCEPT !.status = SENT, !.sent_at = at]
  ELSE [row EXCEPT !.status = FAILED, !.error_message = "senderr"]

Save(r, ch) ==
  /\ Running(r, ch, "save")
  /\ LET d == disp[r][ch]
         group == d.groups[d.i]
         k == group[d.j]
     IN  /\ rows' = [rows EXCEPT ![ch][k] = SavedRow(@, d.out, d.at)]
         /\ disp' = [disp EXCEPT ![r][ch] =
                       [d EXCEPT !.j = d.j + 1,
                                 !.pc = IF d.j = Len(group) THEN "count" ELSE "save"]]
  /\ UNCHANGED <<settings, residences, polled, sms_out, created, job, runs, retry, attempts, lost, retries, reruns, crashes, faults>>

\* A counter update that stores n instead of adding it to the stored value.
CountedOverwrite(j, ch, out, n) ==
  IF ch = EMAIL
  THEN IF out = "ok"
       THEN [j EXCEPT !.email_sent_count = n, !.sent_count = n]
       ELSE [j EXCEPT !.email_failed_count = n, !.failed_count = n]
  ELSE IF out = "ok"
       THEN [j EXCEPT !.sms_sent_count = n]
       ELSE [j EXCEPT !.sms_failed_count = n]

\* A counter update that also adds the SMS recipients to the legacy aggregates.
CountedInAggregate(j, ch, out, n) ==
  IF ch = EMAIL
  THEN IF out = "ok"
       THEN [j EXCEPT !.email_sent_count = @ + n, !.sent_count = @ + n]
       ELSE [j EXCEPT !.email_failed_count = @ + n, !.failed_count = @ + n]
  ELSE IF out = "ok"
       THEN [j EXCEPT !.sms_sent_count = @ + n, !.sent_count = @ + n]
       ELSE [j EXCEPT !.sms_failed_count = @ + n, !.failed_count = @ + n]

\* A counter update that adds 1 for a number, however many recipients share it.
CountedPerNumber(j, ch, out, n) ==
  IF ch = EMAIL
  THEN IF out = "ok"
       THEN [j EXCEPT !.email_sent_count = @ + 1, !.sent_count = @ + 1]
       ELSE [j EXCEPT !.email_failed_count = @ + 1, !.failed_count = @ + 1]
  ELSE IF out = "ok"
       THEN [j EXCEPT !.sms_sent_count = @ + 1]
       ELSE [j EXCEPT !.sms_failed_count = @ + 1]

\* MessageJob.objects.filter(id=job_id).update(<counter>=F(<counter>) + n):
\* the increment is applied by the store to the stored value.
Counted(j, ch, out, n) ==
  IF ch = EMAIL
  THEN IF out = "ok"
       THEN [j EXCEPT !.email_sent_count = @ + n, !.sent_count = @ + n]
       ELSE [j EXCEPT !.email_failed_count = @ + n, !.failed_count = @ + n]
  ELSE IF out = "ok"
       THEN [j EXCEPT !.sms_sent_count = @ + n]
       ELSE [j EXCEPT !.sms_failed_count = @ + n]

\* A dispatcher that, its counter updated, goes back to the destination it
\* has just attempted.
CountAndRepeat(r, ch) ==
  /\ Running(r, ch, "count")
  /\ LET d == disp[r][ch]
     IN  /\ job' = Counted(job, ch, d.out, Len(d.groups[d.i]))
         /\ disp' = [disp EXCEPT ![r][ch] =
                       [d EXCEPT !.j = 0, !.out = "none", !.at = NULL, !.pc = "send"]]
  /\ UNCHANGED <<settings, residences, polled, sms_out, created, rows, runs, retry, attempts, lost, retries, reruns, crashes, faults>>

Count(r, ch) ==
  /\ Running(r, ch, "count")
  /\ LET d == disp[r][ch]
     IN  /\ job' = Counted(job, ch, d.out, Len(d.groups[d.i]))
         /\ disp' = [disp EXCEPT ![r][ch] =
                       [d EXCEPT !.i = d.i + 1,
                                 !.j = 0,
                                 !.out = "none",
                                 !.at = NULL,
                                 !.pc = LoopPc(ch, d.i + 1, Len(d.dests))]]
  /\ UNCHANGED <<settings, residences, polled, sms_out, created, rows, runs, retry, attempts, lost, retries, reruns, crashes, faults>>

\* ------------------------------------------------------------------ retry
FailedIds(rs) == { k \in DOMAIN rs : rs[k].status = FAILED }

\* A retry that never takes the early return.
RetryNeverRejected(email_failed, sms_failed) == FALSE

\* `if email_failed == 0 and sms_failed == 0: return Response(..., 400)`
RetryRejected(email_failed, sms_failed) == email_failed = 0 /\ sms_failed = 0

\* MessageJobViewSet.retry up to its early return: get_object() and the two
\* count() queries.
RetryLoad ==
  /\ job.id # 0
  /\ retry.pc = "idle"
  /\ retries < MaxRetries
  /\ retries' = retries + 1
  /\ LET email_failed == Cardinality(FailedIds(rows[EMAIL]))
         sms_failed == Cardinality(FailedIds(rows[SMS]))
     IN  IF RetryRejected(email_failed, sms_failed)
         THEN retry' = [IdleRetry EXCEPT !.resp = "400"]
         ELSE retry' = [pc |-> IF email_failed > 0 THEN "reset_email" ELSE "reset_sms",
                        resp |-> "none",
                        status |-> job.status,
                        email_failed |-> email_failed,
                        sms_failed |-> sms_failed,
                        email_failed_count |-> job.email_failed_count,
                        sms_failed_count |-> job.sms_failed_count,
                        failed_count |-> job.failed_count,
                        was_failed |-> [ch \in Channels |-> FailedIds(rows[ch])]]
  /\ UNCHANGED <<settings, residences, polled, sms_out, created, job, rows, runs, disp, attempts, lost, reruns, crashes, faults>>

\* A reset that leaves the error text of the row in place.
ResetRowKeepError(row) ==
  IF row.status = FAILED
  THEN [row EXCEPT !.status = PENDING, !.sent_at = NULL]
  ELSE row

\* filter(status=FAILED).update(status=PENDING, error_message='', sent_at=None)
ResetRow(row) ==
  IF row.status = FAILED
  THEN [row EXCEPT !.status = PENDING, !.error_message = "", !.sent_at = NULL]
  ELSE row

ResetFailed(rs) == [k \in DOMAIN rs |-> ResetRow(rs[k])]

\* `if email_failed > 0:` reset the failed email rows and zero the email
\* and legacy failed counters of the loaded job object.
RetryResetEmail ==
  /\ retry.pc = "reset_email"
  /\ rows' = [rows EXCEPT ![EMAIL] = ResetFailed(@)]
  /\ retry' = [retry EXCEPT !.email_failed_count = 0,
                            !.failed_count = 0,
                            !.pc = "reset_sms"]
  /\ UNCHANGED <<settings, residences, polled, sms_out, created, job, runs, disp, attempts, lost, retries, reruns, crashes, faults>>

\* `if sms_failed > 0:` reset the failed SMS rows and zero the SMS failed
\* counter of the loaded job object; with no failed SMS row the branch is
\* skipped.
RetryResetSms ==
  /\ retry.pc = "reset_sms"
  /\ IF retry.sms_failed > 0
     THEN /\ rows' = [rows EXCEPT ![SMS] = ResetFailed(@)]
          /\ retry' = [retry EXCEPT !.sms_failed_count = 0, !.pc = "save"]
     ELSE /\ rows' = rows
          /\ retry' = [retry EXCEPT !.pc = "save"]
  /\ UNCHANGED <<settings, residences, polled, sms_out, created, job, runs, disp, attempts, lost, retries, reruns, crashes, faults>>

\* A retry that writes 0 to the failed counter of every channel.
RetrySavedZeroing(j, loaded) ==
  [j EXCEPT !.email_failed_count = 0,
            !.sms_failed_count = 0,
            !.failed_count = 0,
            !.status = PROCESSING,
            !.error_message = "",
            !.completed_at = NULL]

\* A retry that puts the job back to pending instead of processing.
RetrySavedPending(j, loaded) ==
  [j EXCEPT !.email_failed_count = loaded.email_failed_count,
            !.sms_failed_count = loaded.sms_failed_count,
            !.failed_count = loaded.failed_count,
            !.status = PENDING,
            !.error_message = "",
            !.completed_at = NULL]

\* The job row written by retry's job.save(update_fields=[...]): the three
\* failed counters of the loaded object, and the reset status fields.
RetrySaved(j, loaded) ==
  [j EXCEPT !.email_failed_count = loaded.email_failed_count,
            !.sms_failed_count = loaded.sms_failed_count,
            !.failed_count = loaded.failed_count,
            !.status = PROCESSING,
            !.error_message = "",
            !.completed_at = NULL]

\* job.save(...), then start_message_job(job.id) and the 200 response.
RetrySave ==
  /\ retry.pc = "save"
  /\ job' = RetrySaved(job, retry)
  /\ start_message_job
  /\ retry' = [IdleRetry EXCEPT !.resp = "200", !.status = retry.status]
  /\ UNCHANGED <<settings, residences, polled, sms_out, created, rows, attempts, lost, retries, reruns, crashes, faults>>

\* ------------------------------------------------------------------ environment
\* Row k was sent to by the dispatcher of run r, which has not written it yet.
Unsaved(r, ch, k) ==
  /\ Running(r, ch, "save")
  /\ \E m \in disp[r][ch].j..Len(disp[r][ch].groups[disp[r][ch].i]) :
        disp[r][ch].groups[disp[r][ch].i][m] = k

\* The server process dies: every thread of it (orchestrators, dispatchers,
\* a retry request in progress) stops where it is.
Crash ==
  /\ crashes < MaxCrashes
  /\ (\E r \in DOMAIN runs : Live(r)) \/ retry.pc # "idle"
  /\ crashes' = crashes + 1
  /\ runs' = [r \in DOMAIN runs |->
                IF Live(r) THEN [runs[r] EXCEPT !.pc = "dead"] ELSE runs[r]]
  /\ disp' = [r \in DOMAIN disp |-> Ended]
  /\ retry' = IF retry.pc = "idle" THEN retry ELSE IdleRetry
  /\ lost' = [ch \in Channels |->
                [k \in DOMAIN lost[ch] |->
                   lost[ch][k] + Cardinality({r \in DOMAIN runs : Unsaved(r, ch, k)})]]
  /\ UNCHANGED <<settings, residences, polled, sms_out, created, job, rows, attempts, retries, reruns, faults>>

\* An operator invokes run again (recovery after a crash, or a repeated
\* call) while no run of the job is executing.
Rerun ==
  /\ job.id # 0
  /\ NoLiveRun
  /\ reruns < MaxReruns
  /\ reruns' = reruns + 1
  /\ start_message_job
  /\ UNCHANGED <<settings, residences, polled, sms_out, created, job, rows, retry, attempts, lost, retries, crashes, faults>>

\* ------------------------------------------------------------------ specifications
Orchestrate ==
  \/ \E r \in DOMAIN runs : RunLock(r)
  \/ \E r \in DOMAIN runs : RunLaunch(r)
  \/ \E r \in DOMAIN runs : FinalizeCheck(r)
  \/ \E r \in DOMAIN runs : FinalizeSave(r)

OrchestrateFault ==
  \/ \E r \in DOMAIN runs : RunLockFault(r)
  \/ \E r \in DOMAIN runs : FinalizeFault(r)

Dispatch ==
  \/ \E r \in DOMAIN runs, ch \in Channels : Fetch(r, ch)
  \/ \E r \in DOMAIN runs, ch \in Channels : Sleep(r, ch)
  \/ \E r \in DOMAIN runs, ch \in Channels, out \in {"ok", "err"} : Send(r, ch, out)
  \/ \E r \in DOMAIN runs, ch \in Channels : Save(r, ch)
  \/ \E r \in DOMAIN runs, ch \in Channels : Count(r, ch)

DispatchAbort ==
  \/ \E r \in DOMAIN runs : BackendError(r)
  \/ \E r \in DOMAIN runs, ch \in Channels : FetchFault(r, ch)

\* The transport call of a destination times out.
DispatchTimeout ==
  \E r \in DOMAIN runs, ch \in Channels : Send(r, ch, "timeout")

RetryRest ==
  \/ RetryResetEmail
  \/ RetryResetSms
  \/ RetrySave

\* Every thread may interleave with every other: a retry request can arrive
\* while a run is dispatching, and the run it starts then works next to the
\* earlier one.  The process does not crash and run is not re-invoked by hand.
Next ==
  \/ \E request \in Requests : Create(request)
  \/ Orchestrate
  \/ OrchestrateFault
  \/ Dispatch
  \/ RetryLoad
  \/ RetryRest

Spec == Init /\ [][Next]_vars

\* No request arrives while the job is being worked on.
Quiet == NoLiveRun /\ retry.pc = "idle"

\* The job is used one operation at a time: retry and rerun are requested
\* only while no run and no retry is in progress.  The process may crash at
\* any point.
NextSeq ==
  \/ \E request \in Requests : Create(request)
  \/ Orchestrate
  \/ OrchestrateFault
  \/ Dispatch
  \/ (Quiet /\ RetryLoad)
  \/ RetryRest
  \/ Crash
  \/ (Quiet /\ Rerun)

SpecSeq == Init /\ [][NextSeq]_vars

\* The runs with the row lock of the status transition made explicit: while
\* a run holds the row, the writes of the job row by other threads (counter
\* updates, finalize_job's and retry's save) wait.
NextLock ==
  \/ \E request \in Requests : Create(request)
  \/ \E r \in DOMAIN runs : RunAcquire(r)
  \/ \E r \in DOMAIN runs : RunCommit(r)
  \/ \E r \in DOMAIN runs : RunLaunch(r)
  \/ \E r \in DOMAIN runs : FinalizeCheck(r)
  \/ \E r \in DOMAIN runs : NoLockHeld /\ FinalizeSave(r)
  \/ \E r \in DOMAIN runs, ch \in Channels : Fetch(r, ch)
  \/ \E r \in DOMAIN runs, ch \in Channels : Sleep(r, ch)
  \/ \E r \in DOMAIN runs, ch \in Channels, out \in {"ok", "err"} : Send(r, ch, out)
  \/ \E r \in DOMAIN runs, ch \in Channels : Save(r, ch)
  \/ \E r \in DOMAIN runs, ch \in Channels : NoLockHeld /\ Count(r, ch)
  \/ RetryLoad
  \/ RetryResetEmail
  \/ RetryResetSms
  \/ (NoLockHeld /\ RetrySave)

SpecLock == Init /\ [][NextLock]_vars

\* finalize_job(job_id) called on its own: a thread that enters finalize_job
\* with no dispatcher of its own to wait for.
FinalizeCall ==
  /\ job.id # 0
  /\ Len(runs) < 1 + MaxFinalizeCalls
  /\ runs' = Append(runs, [pc |-> "join"])
  /\ disp' = Append(disp, Ended)
  /\ UNCHANGED <<settings, residences, polled, sms_out, created, job, rows, retry, attempts, lost, retries, reruns, crashes, faults>>

\* A job is created and run; the run may meet a database error and the
\* process may crash.  Whenever nothing is at work on the job, finalize_job
\* may be applied to it, one application after the other.
NextFinalize ==
  \/ \E request \in Requests : Create(request)
  \/ Orchestrate
  \/ (Len(runs) = 1 /\ OrchestrateFault)
  \/ Dispatch
  \/ Crash
  \/ (Quiet /\ FinalizeCall)

SpecFinalize == Init /\ [][NextFinalize]_vars

\* The job is used one operation at a time, the process may crash and the
\* run be resumed, and a contact of the store is updated at some moment after
\* the job was created.  No database error occurs.
NextEdit ==
  \/ \E request \in Requests : Create(request)
  \/ Orchestrate
  \/ Dispatch
  \/ (Quiet /\ RetryLoad)
  \/ RetryRest
  \/ Crash
  \/ (Quiet /\ Rerun)
  \/ \E k \in DOMAIN residences : \E data \in Updates(residences[k]) :
       job.id # 0 /\ Unedited /\ Update(k, data)

SpecEdit == Init /\ [][NextEdit]_vars

\* A job of two contacts whose run ended with every SMS recipient and the
\* email recipients in `failed` failed, and whose retry was cut off by a
\* crash after its update of the email rows and before its update of the SMS
\* rows: the email rows are pending again, the email failed counter still
\* counts them, and the job is completed as the run left it.
InitStale ==
  \E failed \in (SUBSET (1..MaxResidences)) \ {{}} :
    /\ settings = SmallSettings
    /\ residences = SubSeq(ResidencePool, 1, MaxResidences)
    /\ created = "201"
    /\ polled = NoResponse
    /\ sms_out = NoCall
    /\ job = [NoJob EXCEPT !.id = 1,
                           !.channels = Channels,
                           !.status = COMPLETED,
                           !.started_at = 1,
                           !.completed_at = 1,
                           !.email_total_recipients = MaxResidences,
                           !.total_recipients = MaxResidences,
                           !.sms_total_recipients = MaxResidences,
                           !.email_sent_count = MaxResidences - Cardinality(failed),
                           !.sent_count = MaxResidences - Cardinality(failed),
                           !.email_failed_count = Cardinality(failed),
                           !.failed_count = Cardinality(failed),
                           !.sms_failed_count = MaxResidences]
    /\ rows = [ch \in Channels |->
                 [k \in 1..MaxResidences |->
                    LET new == NewRecipient(IF ch = EMAIL
                                            THEN get_recipient_email(ResidencePool[k])
                                            ELSE get_recipient_phone(ResidencePool[k]))
                    IN  IF ch = SMS
                        THEN [new EXCEPT !.status = FAILED, !.error_message = "senderr"]
                        ELSE IF k \in failed THEN new
                        ELSE [new EXCEPT !.status = SENT, !.sent_at = 1]]]
    /\ runs = << [pc |-> "done"] >>
    /\ disp = << Ended >>
    /\ retry = IdleRetry
    /\ attempts = [ch \in Channels |-> [k \in 1..MaxResidences |-> 1]]
    /\ lost = [ch \in Channels |-> [k \in 1..MaxResidences |-> 0]]
    /\ retries = 0
    /\ reruns = 0
    /\ crashes = MaxCrashes
    /\ faults = 0

\* A retry of the job whose earlier retry was interrupted, and the run it
\* starts; no other request arrives meanwhile.  The retry finds no failed
\* email recipient and skips its email branch.
NextStale ==
  \/ (Quiet /\ RetryLoad)
  \/ RetryResetSms
  \/ RetrySave
  \/ Orchestrate
  \/ Dispatch

SpecStale == InitStale /\ [][NextStale]_vars

\* One uninterrupted run of a job with one channel.
NextBatch ==
  \/ \E ch \in Channels :
       Create([has_channels |-> TRUE, channels |-> {ch}, subject |-> "hello"])
  \/ Orchestrate
  \/ Dispatch

SpecBatch == InitBatch /\ [][NextBatch]_vars

\* One uninterrupted run in which transport calls also time out.
NextTimeout ==
  \/ NextBatch
  \/ DispatchTimeout

SpecTimeout == InitBatch /\ [][NextTimeout]_vars

\* One run of a job under every transport configuration, with errors in the
\* orchestrator and in the set-up of the dispatchers.
NextConfig ==
  \/ \E request \in Requests : Create(request)
  \/ Orchestrate
  \/ OrchestrateFault
  \/ Dispatch
  \/ DispatchAbort

SpecConfig == InitConfig /\ [][NextConfig]_vars

\* One run of a job in the development configuration.
NextDev ==
  \/ \E request \in Requests : Create(request)
  \/ Orchestrate
  \/ Dispatch

SpecDev == InitDev /\ [][NextDev]_vars

SpecContacts == InitContacts /\ [][NextDev]_vars

\* A client polls the status of a job.
NextProgress == Status

SpecProgress == InitProgress /\ [][NextProgress]_vars

\* Calls of the SMS backend outside a job.
NextBackend ==
  \/ \E fail_silently \in BOOLEAN, fault \in ProviderFaults :
       CallSend(fail_silently, fault)
  \/ \E fail_silently \in BOOLEAN, fault \in ProviderFaults :
       \E recipients \in {<< >>, << "p1" >>, << "p1", "p2" >>} :
         CallSendBulk(fail_silently, recipients, fault)

SpecBackend == InitBackend /\ [][NextBackend]_vars

\* ------------------------------------------------------------------ claims
\* C1: in every reachable state, for each channel, the sent counter plus the
\* failed counter is at most the channel's total number of recipients.
C1_CountersWithinTotal ==
  /\ job.email_sent_count + job.email_failed_count <= job.email_total_recipients
  /\ job.sms_sent_count + job.sms_failed_count <= job.sms_total_recipients

\* C2: a job whose status is completed has no pending recipient in either
\* channel.  It is stated for the states in which no run and no retry
\* request is in progress, where it has to hold a fortiori: a violation
\* there is not the passing state between two writes of one handler.
C2_CompletedHasNoPending ==
  (job.status = COMPLETED /\ Quiet) => ~HasPending(EMAIL) /\ ~HasPending(SMS)

\* The status changes the specification names: pending->processing,
\* processing->completed, processing->failed and failed->processing.
ClaimedEdges ==
  { <<PENDING, PROCESSING>>, <<PROCESSING, COMPLETED>>, <<PROCESSING, FAILED>>,
    <<FAILED, PROCESSING>> }

\* C3 as stated, in the particular it names: no operation moves a job out
\* of completed and no operation moves a job back to pending.
C3_CompletedIsFinal ==
  [][/\ job.status = COMPLETED => job'.status = COMPLETED
     /\ job.status # PENDING => job'.status # PENDING]_vars

CodeEdges ==
  ClaimedEdges \cup
  { <<COMPLETED, PROCESSING>>, <<PENDING, FAILED>>,
    <<COMPLETED, FAILED>>, <<FAILED, COMPLETED>> }

\* C3 as amended: the status also changes completed->processing (retry of a
\* completed job that has failed recipients), pending->failed (an error in
\* the first status transition) and, between overlapping runs,
\* completed->failed and failed->completed; no operation moves a job back to
\* pending and none moves a pending job straight to completed.
C3_CodeEdgesOnly ==
  [][job'.status # job.status => <<job.status, job'.status>> \in CodeEdges]_vars

\* A retry that found the job completed has set it to processing.
C3_Witness ==
  /\ retry.resp = "200"
  /\ retry.status = COMPLETED
  /\ job.status = PROCESSING

\* ------------------------------------------------------------------
\* The step of a dispatcher that issues the transport send of a destination.
SendStep(r, ch) == disp[r][ch].pc = "send" /\ disp'[r][ch].pc = "save"

\* The rows of the destination the dispatcher stands at.
Group(r, ch) == disp[r][ch].groups[disp[r][ch].i]

GroupIds(r, ch) == { Group(r, ch)[m] : m \in DOMAIN Group(r, ch) }

\* The step of a dispatcher that writes row k.
SaveStep(r, ch, k) ==
  /\ disp[r][ch].pc = "save"
  /\ disp'[r][ch].j = disp[r][ch].j + 1
  /\ Group(r, ch)[disp[r][ch].j] = k

InFlight(ch, k) == \E r \in DOMAIN runs : Unsaved(r, ch, k)

Terminal(ch) == { k \in DOMAIN rows[ch] : rows[ch][k].status # PENDING }

\* C4 as stated: with no retry, once every recipient of a channel is sent or
\* failed the send attempts made for the channel over all runs number n, one
\* per recipient.
C4_TotalAttemptsIsN ==
  \A ch \in Channels :
    (retries = 0 /\ job.id # 0 /\ ~HasPending(ch))
      => SumSeq(attempts[ch]) = Len(rows[ch])

\* C4 as amended: with no retry, a run sends only to recipients that are
\* pending, so a resumed run attempts exactly the recipients still pending
\* and none that is sent or failed; a recipient has been attempted once if
\* it is sent or failed (or its send is in progress), plus once for every
\* crash that fell between its send and the write of its status.  The total
\* over both runs is n only when the crash did not fall there.
C4_ResumeAttempts ==
  /\ [](retries = 0 =>
          \A ch \in Channels : \A k \in DOMAIN rows[ch] :
            /\ attempts[ch][k] = lost[ch][k]
                 + (IF k \in Terminal(ch) \/ InFlight(ch, k) THEN 1 ELSE 0)
            /\ lost[ch][k] <= crashes)
  /\ [][retries = 0 =>
          \A r \in DOMAIN disp : \A ch \in Channels :
            SendStep(r, ch) => GroupIds(r, ch) \cap Terminal(ch) = {}]_vars

\* A crashed first run left one recipient sent and another attempted but not
\* written; the resumed run has finished and the job is completed.
C4_Witness ==
  /\ retries = 0
  /\ crashes = 1
  /\ Len(runs) = 2
  /\ runs[1].pc = "dead"
  /\ runs[2].pc = "done"
  /\ job.status = COMPLETED
  /\ \E ch \in Channels : \E k1, k2 \in DOMAIN rows[ch] :
       /\ attempts[ch][k1] = 1
       /\ attempts[ch][k2] = 2

\* C5: a transport send is issued only for recipients whose stored status
\* is pending at that moment, and a dispatcher writes only rows whose stored
\* status is pending.
C5_SendOnlyPending ==
  [][\A r \in DOMAIN disp : \A ch \in Channels :
       /\ SendStep(r, ch) => GroupIds(r, ch) \cap Terminal(ch) = {}
       /\ \A k \in DOMAIN rows[ch] :
            SaveStep(r, ch, k) => rows[ch][k].status = PENDING]_vars

\* C6: a recipient's status changes only pending->sent or pending->failed,
\* written by a dispatcher, and failed->pending, written by retry; a sent
\* recipient never changes status.
C6_RecipientEdges ==
  [][\A ch \in Channels : \A k \in DOMAIN rows[ch] :
       rows'[ch][k].status # rows[ch][k].status =>
         \/ /\ rows[ch][k].status = PENDING
            /\ rows'[ch][k].status \in {SENT, FAILED}
            /\ \E r \in DOMAIN disp : SaveStep(r, ch, k)
         \/ /\ rows[ch][k].status = FAILED
            /\ rows'[ch][k].status = PENDING
            /\ retry.pc \in {"reset_email", "reset_sms"}
            /\ retry'.pc # retry.pc]_vars

\* C7: right after the job.save of an accepted retry, every recipient that
\* was failed when the request arrived is pending with empty error text and
\* null sent time, the failed counter of every channel that had failed
\* recipients is 0 (the legacy one with the email one), error_message is
\* empty, completed_at is null and status is processing.
C7_RetryResets ==
  [][(retry.pc = "save" /\ retry'.resp = "200") =>
       /\ \A ch \in Channels : \A k \in retry.was_failed[ch] :
            rows'[ch][k] = NewRecipient(rows[ch][k].dest)
       /\ retry.was_failed[EMAIL] # {} =>
            job'.email_failed_count = 0 /\ job'.failed_count = 0
       /\ retry.was_failed[SMS] # {} => job'.sms_failed_count = 0
       /\ job'.error_message = ""
       /\ job'.completed_at = NULL
       /\ job'.status = PROCESSING]_vars

\* A retry of a job that had failed with an error text and had a failed
\* recipient has been accepted: the recipient is pending again.
C7_Witness ==
  /\ retry.resp = "200"
  /\ retry.status = FAILED
  /\ job.status = PROCESSING
  /\ job.error_message = ""
  /\ HasPending(EMAIL) \/ HasPending(SMS)
  /\ \E r \in DOMAIN runs : runs[r].pc = "lock"

\* C8: a retry request that finds no failed recipient in either channel is
\* answered 400 and changes no recipient, nothing of the job, and starts no
\* run.
C8_RetryRejected ==
  [][(retries' = retries + 1 /\ FailedIds(rows[EMAIL]) = {} /\ FailedIds(rows[SMS]) = {}) =>
       /\ retry'.pc = "idle"
       /\ retry'.resp = "400"
       /\ job' = job
       /\ rows' = rows
       /\ runs' = runs
       /\ disp' = disp]_vars

\* A retry has been rejected on a job whose run has finished.
C8_Witness ==
  /\ retry.resp = "400"
  /\ retry.pc = "idle"
  /\ job.status = COMPLETED
  /\ FailedIds(rows[EMAIL]) = {} /\ FailedIds(rows[SMS]) = {}

\* ------------------------------------------------------------------
\* The log entries of a dispatcher that are transport sends.
Sends(log) == SelectSeq(log, LAMBDA e : e.out # "sleep")

\* The transport sends a dispatcher issued for number p.
SendsTo(log, p) == { m \in DOMAIN log : log[m].out # "sleep" /\ log[m].dest = p }

\* The status a recipient ends with after a send with outcome out.
StatusOf(out) == IF out = "ok" THEN SENT ELSE FAILED

\* C9: when the SMS dispatcher of a run has finished, for every number of
\* its snapshot (all rows of the job, in a first run) exactly one transport
\* send was issued, and every recipient with that number has the terminal
\* status that send's outcome determines, so recipients sharing a number end
\* all sent or all failed.
C9_OneSendPerNumber ==
  \A r \in DOMAIN disp :
    disp[r][SMS].pc = "done" =>
      \A k \in DOMAIN rows[SMS] :
        LET to == SendsTo(disp[r][SMS].log, rows[SMS][k].dest)
        IN  /\ Cardinality(to) = 1
            /\ \A m \in to : rows[SMS][k].status = StatusOf(disp[r][SMS].log[m].out)
            /\ attempts[SMS][k] = 1

\* The SMS dispatcher has finished a snapshot in which two recipients share
\* a number whose send raised while another number's send returned: both
\* sharing recipients are failed.
C9_Witness ==
  \E r \in DOMAIN disp :
    /\ disp[r][SMS].pc = "done"
    /\ \E k1, k2, k3 \in DOMAIN rows[SMS] :
         /\ k1 # k2
         /\ rows[SMS][k1].dest = rows[SMS][k2].dest
         /\ rows[SMS][k1].status = FAILED
         /\ rows[SMS][k2].status = FAILED
         /\ rows[SMS][k3].status = SENT

\* ceil(n / b)
CeilDiv(n, b) == (n + b - 1) \div b

\* The number of transport sends among the first p entries of a log.
SendsBefore(log, p) == Len(Sends(SubSeq(log, 1, p - 1)))

SleepsAt(log) == { p \in DOMAIN log : log[p].out = "sleep" }

\* C10: when a dispatcher with a positive batch delay has finished n
\* destinations with batch size b, it has sent to the n destinations once
\* each in snapshot order, it has slept exactly ceil(n/b)-1 times, once at
\* every batch boundary: after the send of destination q*b and before the
\* send of destination q*b+1, for q = 1..ceil(n/b)-1; so every batch but the
\* last has b sends, the last has the remainder, and nothing precedes the
\* first send.
C10_BatchesAndDelays ==
  \A r \in DOMAIN disp : \A ch \in Channels :
    (disp[r][ch].pc = "done" /\ batch_delay(ch) > 0) =>
      LET log == disp[r][ch].log
          n == Len(disp[r][ch].dests)
          b == batch_size(ch)
          batches == CeilDiv(n, b)
      IN  /\ Len(Sends(log)) = n
          /\ \A m \in 1..n : Sends(log)[m].dest = disp[r][ch].dests[m]
          /\ Cardinality(SleepsAt(log)) = IF n = 0 THEN 0 ELSE batches - 1
          /\ \A q \in 1..(batches - 1) :
               Cardinality({ p \in SleepsAt(log) : SendsBefore(log, p) = q * b }) = 1
          /\ \A p \in SleepsAt(log) :
               /\ SendsBefore(log, p) \in { q * b : q \in 1..(batches - 1) }
               /\ p < Len(log)
               /\ log[p + 1].out # "sleep"

\* A dispatcher has finished five destinations with batch size two and a
\* positive delay: batches of 2, 2 and 1 sends and two delays.
C10_Witness ==
  \E r \in DOMAIN disp : \E ch \in Channels :
    /\ disp[r][ch].pc = "done"
    /\ batch_delay(ch) > 0
    /\ batch_size(ch) = 2
    /\ Len(disp[r][ch].dests) = 5
    /\ [p \in DOMAIN disp[r][ch].log |-> disp[r][ch].log[p].out = "sleep"]
         = <<FALSE, FALSE, TRUE, FALSE, FALSE, TRUE, FALSE>>

\* ------------------------------------------------------------------
Other(ch) == IF ch = EMAIL THEN SMS ELSE EMAIL

\* Some step of the dispatcher of run r for channel ch.
DispatcherStep(r, ch) ==
  \/ Fetch(r, ch)
  \/ Sleep(r, ch)
  \/ \E out \in {"ok", "err"} : Send(r, ch, out)
  \/ Save(r, ch)
  \/ Count(r, ch)

\* C11: once the dispatcher of one channel has aborted on an error of its
\* set-up, the dispatcher of the other channel of the same run, unless its
\* own set-up fails too, can always take its next step until it is done, and when it
\* is done every recipient of its channel has been attempted once and is
\* sent or failed; this for either choice of the aborted channel.
C11_ChannelIndependence ==
  \A r \in DOMAIN disp : \A ch \in Channels :
    (disp[r][ch].out = "abort" /\ Other(ch) \in job.channels
       /\ disp[r][Other(ch)].out # "abort"
       /\ (Other(ch) = SMS => BackendLoads)) =>
      /\ disp[r][Other(ch)].pc # "done" => ENABLED DispatcherStep(r, Other(ch))
      /\ disp[r][Other(ch)].pc = "done" =>
           \A k \in DOMAIN rows[Other(ch)] :
             /\ rows[Other(ch)][k].status \in {SENT, FAILED}
             /\ attempts[Other(ch)][k] = 1

\* The email dispatcher aborted and the SMS dispatcher finished its two
\* recipients; and the SMS dispatcher aborted on a backend that does not load
\* while the email dispatcher finished: one of the two, in a run of a job
\* with both channels.
C11_Witness ==
  \E r \in DOMAIN disp : \E ch \in Channels :
    /\ job.channels = Channels
    /\ disp[r][ch].out = "abort"
    /\ disp[r][Other(ch)].pc = "done"
    /\ disp[r][Other(ch)].out # "abort"
    /\ Len(rows[Other(ch)]) = 2
    /\ \A k \in DOMAIN rows[ch] : rows[ch][k].status = PENDING
    /\ ch = SMS => ~BackendLoads

\* The recipients of a channel that have a status.
RowsIn(ch, status) == Cardinality({ k \in DOMAIN rows[ch] : rows[ch][k].status = status })

\* C12: when the email and the SMS dispatcher of a run have both finished,
\* whatever their interleaving, every counter of the job equals the number
\* of recipients its dispatcher marked: no increment of one dispatcher was
\* lost to the other.  (One run of a new job: the counters grew from 0.)
C12_NoLostIncrement ==
  \A r \in DOMAIN runs :
    (runs[r].pc = "join" /\ Joined(r)) =>
      /\ job.email_sent_count = RowsIn(EMAIL, SENT)
      /\ job.email_failed_count = RowsIn(EMAIL, FAILED)
      /\ job.sms_sent_count = RowsIn(SMS, SENT)
      /\ job.sms_failed_count = RowsIn(SMS, FAILED)
      /\ job.sent_count = job.email_sent_count
      /\ job.failed_count = job.email_failed_count

\* Both dispatchers of a run have finished: one email sent, one email
\* failed, and the two SMS recipients sharing a number sent.
C12_Witness ==
  \E r \in DOMAIN runs :
    /\ runs[r].pc = "join"
    /\ \A ch \in Channels : disp[r][ch].pc = "done" /\ disp[r][ch].out # "abort"
    /\ job.email_sent_count = 1
    /\ job.email_failed_count = 1
    /\ job.sms_sent_count = 2

\* C13: no write to the job stores a value loaded earlier over a value
\* another task has written since.  Checked on retry's job.save: a failed
\* counter that retry did not reset (its channel had no failed recipient)
\* keeps the value it has in the store at that moment.
C13_NoStaleWriteBack ==
  [][(retry.pc = "save" /\ retry'.resp = "200") =>
       /\ retry.email_failed = 0 =>
            /\ job'.email_failed_count = job.email_failed_count
            /\ job'.failed_count = job.failed_count
       /\ retry.sms_failed = 0 =>
            job'.sms_failed_count = job.sms_failed_count]_vars

\* ------------------------------------------------------------------
\* The step in which run r leaves its locked transaction without an error.
LockStep(r) == runs[r].pc = "lock" /\ runs'[r].pc \in {"launch", "done"} /\ faults' = faults

\* C14: a run that finds the job completed ends in its locked transaction:
\* it launches no dispatcher, issues no send and leaves the job (status,
\* counters, started_at, completed_at, error_message) and every recipient
\* row as they are.
C14_CompletedRunIsNoOp ==
  [][\A r \in DOMAIN runs :
       (LockStep(r) /\ job.status = COMPLETED) =>
         /\ runs'[r].pc = "done"
         /\ job' = job
         /\ rows' = rows
         /\ disp' = disp
         /\ attempts' = attempts]_vars

\* The first run completed the job at time 1; run was invoked again and the
\* second run has ended without writing anything.
C14_Witness ==
  /\ Len(runs) = 2
  /\ reruns = 1
  /\ retries = 0 /\ crashes = 0 /\ faults = 0
  /\ runs[2].pc = "done"
  /\ job.status = COMPLETED
  /\ job.completed_at = 1
  /\ SumSeq(attempts[EMAIL]) + SumSeq(attempts[SMS]) = Len(rows[EMAIL]) + Len(rows[SMS])

Counters(j) ==
  << j.email_sent_count, j.email_failed_count, j.sms_sent_count, j.sms_failed_count,
     j.sent_count, j.failed_count >>

\* Some dispatcher stands between a transport send and its counter update.
MidSend == \E r \in DOMAIN disp : \E ch \in Channels : disp[r][ch].pc \in {"save", "count"}

NoPending == ~HasPending(EMAIL) /\ ~HasPending(SMS)

\* C15: while a job has no pending recipient (and no send is half recorded,
\* no retry in progress), no step of any run of it issues a send, writes a
\* recipient or changes a counter; and whenever the last run invoked on such
\* a job has ended, the job is completed, unless that very run met a
\* database error, which leaves it failed with its error text and time.  So
\* two runs in succession on a job with no pending recipient leave it
\* completed after each.
C15_RunWithoutPendingIsIdempotent ==
  /\ [][(job.id # 0 /\ NoPending /\ ~MidSend /\ retry.pc = "idle") =>
          /\ attempts' = attempts
          /\ rows' = rows
          /\ Counters(job') = Counters(job)]_vars
  /\ []((Quiet /\ runs # << >> /\ runs[Len(runs)].pc = "done" /\ NoPending) =>
          \/ job.status = COMPLETED
          \/ /\ job.status = FAILED
             /\ job.error_message # ""
             /\ job.completed_at = Len(runs))

\* The first run crashed after it had sent to every recipient (status
\* processing, nothing pending); run was invoked twice: the second of the
\* three runs completed the job at time 2 and the third changed nothing.
C15_Witness ==
  /\ Len(runs) = 3
  /\ runs[1].pc = "dead" /\ runs[2].pc = "done" /\ runs[3].pc = "done"
  /\ retries = 0 /\ faults = 0
  /\ job.status = COMPLETED
  /\ job.completed_at = 2
  /\ Len(rows[EMAIL]) + Len(rows[SMS]) > 0
  /\ \A ch \in Channels : \A k \in DOMAIN rows[ch] :
       /\ rows[ch][k].status = SENT
       /\ rows[ch][k].sent_at = 1
       /\ attempts[ch][k] = 1

\* C16: started_at changes only in the locked transaction of a run that
\* finds it unset, which sets it to the current time; once set it never
\* changes, whatever resume, retry or finalization follows.
C16_StartedAtWrittenOnce ==
  [][/\ job.started_at # NULL => job'.started_at = job.started_at
     /\ job'.started_at # job.started_at =>
          /\ job'.started_at = Now
          /\ \E r \in DOMAIN runs : LockStep(r) /\ runs'[r].pc = "launch"]_vars

\* The first run started at time 1 and crashed; an accepted retry and its
\* run followed, and the third run of the job is under way at time 3 with
\* the original started_at.
C16_Witness ==
  /\ Len(runs) = 3
  /\ crashes = 1
  /\ retry.resp = "200"
  /\ runs[3].pc = "join"
  /\ job.started_at = 1

\* ------------------------------------------------------------------
\* The SMS dispatcher of a run of this job cannot load its backend.
BackendMissing == SMS \in job.channels /\ ~BackendLoads

\* The step in which the orchestrator of run r, or finalize_job called by
\* it, meets an error.
OrchestratorErrorStep(r) ==
  runs[r].pc \in {"lock", "join"} /\ runs'[r].pc = "done" /\ faults' = faults + 1

\* The step in which a dispatcher of run r aborts on an error of its set-up.
AbortStep(r, ch) == disp[r][ch].out # "abort" /\ disp'[r][ch].out = "abort"

Misconfigured ==
  \/ ~BackendLoads
  \/ settings.SMS_BACKEND = "MNotifyBackend" /\ ~settings.MNOTIFY_CREDENTIALS

FailedCount(ch) == IF ch = EMAIL THEN job.email_failed_count ELSE job.sms_failed_count

\* C19: a dispatcher that was not aborted in its set-up has, when it is
\* done, issued one send for every destination of its snapshot, in order,
\* whatever sends raised before; the recipients of every destination whose
\* send raised are failed with the error text recorded, and the channel's
\* failed counter equals the number of failed recipients.
C19_FailureDoesNotAbort ==
  \A r \in DOMAIN disp : \A ch \in Channels :
    (disp[r][ch].pc = "done" /\ disp[r][ch].out # "abort") =>
      LET sends == Sends(disp[r][ch].log)
          groups == disp[r][ch].groups
      IN  /\ Len(sends) = Len(disp[r][ch].dests)
          /\ \A m \in DOMAIN sends :
               /\ sends[m].dest = disp[r][ch].dests[m]
               /\ sends[m].out = "err" =>
                    \A g \in DOMAIN groups[m] :
                      /\ rows[ch][groups[m][g]].status = FAILED
                      /\ rows[ch][groups[m][g]].error_message # ""
          /\ FailedCount(ch) = RowsIn(ch, FAILED)
          /\ FailedCount(ch) =
               SumSeq([m \in DOMAIN sends |->
                         IF sends[m].out = "err" THEN Len(groups[m]) ELSE 0])

\* A dispatcher with batch size two is done with four destinations: the
\* first send raised, and the second of the same batch and both of the
\* next batch returned.
C19_Witness ==
  \E r \in DOMAIN disp : \E ch \in Channels :
    /\ disp[r][ch].pc = "done"
    /\ batch_size(ch) = 2
    /\ [m \in DOMAIN Sends(disp[r][ch].log) |-> Sends(disp[r][ch].log)[m].out]
         = <<"err", "ok", "ok", "ok">>
    /\ FailedCount(ch) = 1

\* ------------------------------------------------------------------
\* The requests the claim says are rejected: an empty channel list, or the
\* email channel (named, or by default) with the subject blank or left out.
EmptyChannels(request) == request.has_channels /\ request.channels = {}

EmailWithoutSubject(request) ==
  /\ EMAIL \in request.channels \/ ~request.has_channels
  /\ request.subject \in {MISSING, ""}

\* C20: a create request with an empty channel list, or with the email
\* channel and an empty or missing subject, is answered 400 and creates no
\* job, no recipient row and starts no run; and as long as the last create
\* request was rejected there is no job, no row and no run.
C20_InvalidCreateRejected ==
  /\ [][\A request \in Requests :
          ((EmptyChannels(request) \/ EmailWithoutSubject(request)) /\ Create(request)) =>
            /\ created' = "400"
            /\ job' = job
            /\ rows' = rows
            /\ runs' = runs
            /\ disp' = disp]_vars
  /\ [](created = "400" =>
          /\ job = NoJob
          /\ rows = [ch \in Channels |-> << >>]
          /\ runs = << >>)

\* A create request has been rejected although contacts with addresses and
\* numbers exist: it was the validation that rejected it.
C20_Witness ==
  /\ created = "400"
  /\ Len(residences) = 2
  /\ job.id = 0

\* ------------------------------------------------------------------
\* The contacts of the store that have at least one record for the channel.
WithContact(ch) ==
  { k \in DOMAIN residences :
      IF ch = EMAIL THEN residences[k].email_addresses # << >>
      ELSE residences[k].phone_numbers # << >> }

TotalOf(ch) ==
  IF ch = EMAIL THEN job.email_total_recipients ELSE job.sms_total_recipients

SentCount(ch) == IF ch = EMAIL THEN job.email_sent_count ELSE job.sms_sent_count

\* C21: a job created with both channels has, per channel, one recipient row
\* for every contact that has an address (a number), and the channel's total
\* is that number of rows; with transports that always succeed the run can
\* take a step until it has ended, and when it has ended the job is
\* completed, every recipient is sent and each sent counter equals its total.
C21_CreateBothChannels ==
  (job.id # 0 /\ job.channels = Channels) =>
    /\ \A ch \in Channels :
         /\ Len(rows[ch]) = Cardinality(WithContact(ch))
         /\ TotalOf(ch) = Len(rows[ch])
    /\ runs[1].pc # "done" => ENABLED (Orchestrate \/ Dispatch)
    /\ runs[1].pc = "done" =>
         /\ job.status = COMPLETED
         /\ \A ch \in Channels :
              /\ \A k \in DOMAIN rows[ch] : rows[ch][k].status = SENT
              /\ SentCount(ch) = TotalOf(ch)

\* Three contacts, one with an address only, one with a number only and one
\* with both: the run has ended with totals 2 and 2 and everything sent.
C21_Witness ==
  /\ residences = << ResidencePool[1], ResidencePool[4], ResidencePool[5] >>
  /\ job.channels = Channels
  /\ job.email_total_recipients = 2
  /\ job.sms_total_recipients = 2
  /\ runs[1].pc = "done"
  /\ job.status = COMPLETED
  /\ job.email_sent_count = 2
  /\ job.sms_sent_count = 2

\* ------------------------------------------------------------------
\* The destinations of a contact's records for a channel, in id order, and
\* which of them are flagged primary.
Destinations(residence, ch) ==
  IF ch = EMAIL
  THEN [m \in DOMAIN residence.email_addresses |-> residence.email_addresses[m].email]
  ELSE [m \in DOMAIN residence.phone_numbers |-> residence.phone_numbers[m].number]

PrimaryAt(residence, ch) ==
  IF ch = EMAIL
  THEN { m \in DOMAIN residence.email_addresses : residence.email_addresses[m].is_primary }
  ELSE { m \in DOMAIN residence.phone_numbers : residence.phone_numbers[m].is_primary }

Least(S) == CHOOSE m \in S : \A o \in S : m <= o

Resolved(residence, ch) ==
  IF ch = EMAIL THEN get_recipient_email(residence) ELSE get_recipient_phone(residence)

\* The contacts of the store, in order, that resolve to a destination.
Resolving(ch) ==
  SelectSeq(residences, LAMBDA res : Resolved(res, ch) # NONE)

\* C22: for every contact and channel the resolver returns the destination
\* of the first record flagged primary when one is flagged, otherwise that of
\* the first record, and none when the contact has no record; what it
\* returns is the destination of one of the contact's own records.  A valid
\* create request for which some contact has a record is answered 201, and
\* the rows of each requested channel are one per contact that resolves to a
\* destination, in order, with that destination: a contact that resolves to
\* none has no row.
C22_ResolverPolicy ==
  /\ [](\A k \in DOMAIN residences : \A ch \in Channels :
          LET res == residences[k]
              dests == Destinations(res, ch)
              primary == PrimaryAt(res, ch)
          IN  /\ primary # {} => Resolved(res, ch) = dests[Least(primary)]
              /\ (primary = {} /\ dests # << >>) => Resolved(res, ch) = dests[1]
              /\ dests = << >> => Resolved(res, ch) = NONE
              /\ Resolved(res, ch) # NONE => InSeq(Resolved(res, ch), dests))
  /\ [][\A request \in Requests :
          (validate(request) /\ Create(request)
             /\ \E ch \in validated_channels(request) : WithContact(ch) # {}) =>
            /\ created' = "201"
            /\ \A ch \in Channels :
                 rows'[ch] =
                   IF ch \in validated_channels(request)
                   THEN [m \in DOMAIN Resolving(ch) |->
                           NewRecipient(Resolved(Resolving(ch)[m], ch))]
                   ELSE << >>]_vars

\* A job was created for both channels from a contact without any address
\* whose second number is the one flagged primary, and a contact with both:
\* one email row, and two SMS rows of which the first has the primary number.
C22_Witness ==
  /\ created = "201"
  /\ job.channels = Channels
  /\ residences[1].email_addresses = << >>
  /\ Len(residences[1].phone_numbers) = 2
  /\ ~residences[1].phone_numbers[1].is_primary
  /\ residences[1].phone_numbers[2].is_primary
  /\ residences[1].phone_numbers[1].number # residences[1].phone_numbers[2].number
  /\ Len(rows[EMAIL]) = 1
  /\ Len(rows[SMS]) = 2
  /\ rows[SMS][1].dest = residences[1].phone_numbers[2].number

\* ------------------------------------------------------------------
\* floor(processed * 100 / total), and 0 when total = 0.
FloorPercent(processed, total) ==
  IF total = 0 THEN 0 ELSE (processed * 100) \div total

SendFailure ==
  /\ sms_out # NoCall
  /\ settings.SMS_BACKEND = "MNotifyBackend"
  /\ sms_out.recipients # << >>
  /\ sms_out.fault # "none" \/ ~settings.MNOTIFY_CREDENTIALS

SendOuts(r, ch) ==
  [m \in DOMAIN Sends(disp[r][ch].log) |-> Sends(disp[r][ch].log)[m].out]

\* C25: a transport call that timed out is a send failure of its
\* destination only.  The job does not become failed; the dispatcher goes on:
\* in every state before its end it can take a step, and at its end it has
\* issued one send for every destination of its snapshot, the recipients of
\* the destinations that timed out are failed with an error text, and those
\* of the destinations whose send returned are sent.
C25_TimeoutIsSendFailure ==
  /\ job.status # FAILED
  /\ \A r \in DOMAIN disp : \A ch \in Channels :
       LET d == disp[r][ch]
       IN  /\ d.pc \notin {"off", "done"} =>
                ENABLED (DispatcherStep(r, ch) \/ Send(r, ch, "timeout"))
           /\ d.pc = "done" =>
                /\ Len(SendOuts(r, ch)) = Len(d.dests)
                /\ \A m \in DOMAIN d.dests : \A g \in DOMAIN d.groups[m] :
                     LET row == rows[ch][d.groups[m][g]]
                     IN  /\ SendOuts(r, ch)[m] = "timeout" =>
                              row.status = FAILED /\ row.error_message # ""
                         /\ SendOuts(r, ch)[m] = "ok" => row.status = SENT

\* The SMS dispatcher with batch size two is done with three numbers: the
\* call for the first, which two contacts share, timed out, and the second
\* of that batch and the one of the next batch returned.
C25_Witness ==
  \E r \in DOMAIN disp :
    /\ disp[r][SMS].pc = "done"
    /\ batch_size(SMS) = 2
    /\ SendOuts(r, SMS) = << "timeout", "ok", "ok" >>
    /\ job.sms_failed_count = 2
    /\ job.sms_sent_count = 2
    /\ job.status = PROCESSING

\* ------------------------------------------------------------------
\* The step of create or retry that calls start_message_job and responds.
StartStep == Len(runs') = Len(runs) + 1

\* C26: the step in which create or retry starts a run and responds leaves
\* the new run before its first statement: no dispatcher of it is launched,
\* no send is issued and no recipient row or counter is written by the
\* step beyond what the handler itself writes, and no other run is waited
\* for or changed.  The response of create shows the job pending, that of
\* retry processing.
C26_StartDoesNotWait ==
  [][StartStep =>
       /\ runs' = Append(runs, NewRun)
       /\ disp' = Append(disp, [ch \in Channels |-> IdleDispatcher])
       /\ \A ch \in Channels : \A k \in DOMAIN attempts'[ch] :
            attempts'[ch][k] = IF job.id = 0 THEN 0 ELSE attempts[ch][k]
       /\ \A ch \in Channels : \A k \in DOMAIN rows'[ch] :
            job.id = 0 => rows'[ch][k].status = PENDING
       /\ \/ job.id = 0 /\ created' = "201" /\ job'.status = PENDING
          \/ retry.pc = "save" /\ retry'.resp = "200" /\ job'.status = PROCESSING
               /\ rows' = rows]_vars

\* create has answered 201 and the run it started has not taken a step: the
\* job is pending and no recipient has been attempted.
C26_Witness ==
  /\ created = "201"
  /\ runs = << NewRun >>
  /\ job.status = PENDING
  /\ job.started_at = NULL
  /\ \E ch \in Channels : rows[ch] # << >>
  /\ \A ch \in Channels : \A k \in DOMAIN rows[ch] :
       rows[ch][k].status = PENDING /\ attempts[ch][k] = 0

\* ------------------------------------------------------------------
\* The step in which finalize_job of run r makes its two exists() queries,
\* and the step in which it saves the job.
FinalizeCheckStep(r) ==
  runs[r].pc = "join" /\ runs'[r].pc \in {"fin_save", "done"} /\ faults' = faults

FinalizeSaveStep(r) == runs[r].pc = "fin_save" /\ runs'[r].pc = "done"

\* C27: finalize_job of a run whose dispatchers have finished goes on to its
\* save exactly when neither channel has a pending recipient, and the save
\* sets status completed and completed_at to the time of the save and
\* nothing else; when a recipient is pending the run ends with the job
\* (status, completed_at, error_message and the rest) and the rows untouched.
C27_FinalizeCompletesIffNoPending ==
  [][\A r \in DOMAIN runs :
       /\ FinalizeCheckStep(r) =>
            /\ runs'[r].pc = "fin_save" <=> NoPending
            /\ job' = job
            /\ rows' = rows
       /\ FinalizeSaveStep(r) =>
            /\ NoPending
            /\ Now # NULL
            /\ job' = [job EXCEPT !.status = COMPLETED, !.completed_at = Now]
            /\ rows' = rows]_vars

\* A run has ended whose email dispatcher aborted in its set-up and whose SMS
\* dispatcher finished: the email recipients are pending, and finalize_job
\* left the job processing with no completion time and no error text.
C27_Witness ==
  /\ runs # << >>
  /\ NoLiveRun
  /\ HasPending(EMAIL)
  /\ rows[SMS] # << >>
  /\ ~HasPending(SMS)
  /\ job.status = PROCESSING
  /\ job.completed_at = NULL
  /\ job.error_message = ""

\* ------------------------------------------------------------------
\* The step in which run r leaves its joins and enters finalize_job.
FinalizeStartStep(r) == runs[r].pc = "join" /\ runs'[r].pc \in {"fin_save", "done"}

\* C28: finalize_job of a run starts only when every dispatcher the run
\* launched has ended: in the state in which it starts, no dispatcher of
\* that run stands at its snapshot, a sleep, a send, a row write or a
\* counter update; and a run that has not passed its joins is not in
\* finalize_job.
C28_FinalizeAfterJoin ==
  /\ [][\A r \in DOMAIN runs :
          FinalizeStartStep(r) =>
            \A ch \in Channels : disp[r][ch].pc \in {"off", "done"}]_vars
  /\ [](\A r \in DOMAIN runs : \A ch \in Channels :
          disp[r][ch].pc \notin {"off", "done"} => runs[r].pc = "join")

\* A run is in finalize_job, between its exists() queries and its save, and a
\* dispatcher of a later run stands between a send and its row write.
C28_Witness ==
  \E r, o \in DOMAIN runs : \E ch \in Channels :
    /\ runs[r].pc = "fin_save"
    /\ o # r
    /\ disp[o][ch].pc = "save"
    /\ Joined(r)

\* ------------------------------------------------------------------
\* C29: while a run holds the job-row lock of its status transition none of
\* its dispatchers has been launched: none of them stands at its snapshot, a
\* sleep, a send, a row write or a counter update; the run launches them
\* only in a state in which it does not hold the lock.
C29_NoLockWhileSending ==
  /\ [](\A r \in DOMAIN runs :
          HoldsLock(r) => \A ch \in Channels : disp[r][ch].pc = "off")
  /\ [][\A r \in DOMAIN runs :
          (\E ch \in Channels : disp[r][ch].pc = "off" /\ disp'[r][ch].pc # "off") =>
            ~HoldsLock(r) /\ ~HoldsLock(r)']_vars

\* The run started by a retry holds the job-row lock while a dispatcher of
\* the first run, which has released it long ago, is about to send.
C29_Witness ==
  \E r, o \in DOMAIN runs : \E ch \in Channels :
    /\ HoldsLock(r)
    /\ o # r
    /\ disp[o][ch].pc \in {"send", "sleep"}

\* ------------------------------------------------------------------
\* Run r is an application of finalize_job that follows a completed
\* application of finalize_job with nothing in between.
SecondApplication(r) == r > 2 /\ runs[r - 1].pc = "done"

\* C30: every step of finalize_job leaves the recipient rows and the six
\* counters as they are and changes the status only when no recipient is
\* pending; and an application of finalize_job that follows a completed one
\* with no other operation in between leaves the status as the first one
\* left it, so two applications in succession give the status, counters and
\* rows of one.
C30_FinalizeIdempotent ==
  [][\A r \in DOMAIN runs :
       FinalizeCheckStep(r) \/ FinalizeSaveStep(r) =>
         /\ rows' = rows
         /\ Counters(job') = Counters(job)
         /\ job'.status # job.status => NoPending
         /\ SecondApplication(r) => job'.status = job.status]_vars

\* finalize_job has been applied twice in succession to a job whose run had
\* failed with every recipient processed: the first application completed
\* the job at time 2, the second wrote completed_at again at time 3 and left
\* the status completed.
C30_Witness ==
  /\ Len(runs) = 1 + MaxFinalizeCalls
  /\ \A r \in DOMAIN runs : runs[r].pc = "done"
  /\ faults > 0
  /\ NoPending
  /\ job.status = COMPLETED
  /\ job.completed_at = Len(runs)

\* ------------------------------------------------------------------
\* The rows a dispatcher took into its snapshot.
SnapshotRows(d) ==
  UNION { { d.groups[m][p] : p \in DOMAIN d.groups[m] } : m \in DOMAIN d.groups }

\* The destinations a dispatcher has sent to so far, in the order of its sends.
SentTo(d) == [m \in DOMAIN Sends(d.log) |-> Sends(d.log)[m].dest]

\* The step in which the dispatcher of run r for channel ch takes its snapshot.
FetchStep(r, ch) ==
  disp[r][ch].pc = "fetch" /\ disp'[r][ch].pc # "fetch" /\ disp'[r][ch].out # "abort"
    /\ runs'[r].pc = "join"

\* C31: the sends a dispatcher has issued are at every moment the first
\* destinations of its snapshot, one send each, in the order of the
\* snapshot: the stored address of each pending row in id order for email,
\* the distinct stored numbers in the order of their first row for SMS; a
\* dispatcher that has ended has sent to all of them.  The snapshot is the
\* set of rows pending when it is taken, and a send of the dispatcher is an
\* attempt for rows of its snapshot only, also when a retry has meanwhile
\* made other rows, or rows it has already attempted, pending again.
C31_SnapshotOnceInOrder ==
  /\ [](\A r \in DOMAIN disp : \A ch \in Channels :
          LET d == disp[r][ch]
              n == Len(Sends(d.log))
          IN  (d.pc \notin {"off", "fetch"} /\ d.out # "abort") =>
                /\ n = (IF d.pc \in {"save", "count"} THEN d.i ELSE d.i - 1)
                /\ n <= Len(d.dests)
                /\ SentTo(d) = SubSeq(d.dests, 1, n)
                /\ d.pc = "done" => n = Len(d.dests)
                /\ Len(d.groups) = Len(d.dests)
                /\ \A m \in DOMAIN d.groups :
                     /\ d.groups[m] # << >>
                     /\ ch = EMAIL => Len(d.groups[m]) = 1
                     /\ \A p \in DOMAIN d.groups[m] :
                          rows[ch][d.groups[m][p]].dest = d.dests[m]
                     /\ \A o \in DOMAIN d.groups :
                          m < o => /\ d.groups[m][1] < d.groups[o][1]
                                   /\ ch = SMS => d.dests[m] # d.dests[o])
  /\ [][\A r \in DOMAIN disp : \A ch \in Channels :
          /\ FetchStep(r, ch) =>
               SnapshotRows(disp'[r][ch]) =
                 { k \in DOMAIN rows[ch] : rows[ch][k].status = PENDING }
          /\ SendStep(r, ch) =>
               \A k \in DOMAIN attempts[ch] :
                 attempts'[ch][k] # attempts[ch][k] =>
                   /\ k \in SnapshotRows(disp[r][ch])
                   /\ attempts'[ch][k] = attempts[ch][k] + 1]_vars

\* An email dispatcher has ended after one send to each of the two addresses
\* of its snapshot, in id order; the first row, which it had marked failed,
\* was meanwhile made pending again by a retry, and the dispatcher has not
\* sent to it a second time.
C31_Witness ==
  \E r \in DOMAIN disp :
    LET d == disp[r][EMAIL]
    IN  /\ d.pc = "done"
        /\ Len(d.dests) = MaxResidences
        /\ SentTo(d) = d.dests
        /\ d.log[1].out = "err"
        /\ rows[EMAIL][d.groups[1][1]].status = PENDING
        /\ attempts[EMAIL][d.groups[1][1]] = 1

\* ------------------------------------------------------------------
\* C32: once the job exists, no step, whether an update of a contact, a run,
\* a resumed run or a retry, changes the destination stored on a recipient
\* row, and every send is addressed to the destination stored on the rows
\* it is an attempt for, whatever the contacts resolve to by then.
C32_StoredDestination ==
  [][job.id # 0 =>
       /\ \A ch \in Channels :
            /\ DOMAIN rows'[ch] = DOMAIN rows[ch]
            /\ \A k \in DOMAIN rows[ch] : rows'[ch][k].dest = rows[ch][k].dest
       /\ \A r \in DOMAIN disp : \A ch \in Channels :
            SendStep(r, ch) =>
              LET log == disp'[r][ch].log
              IN  \A k \in DOMAIN rows[ch] :
                    attempts'[ch][k] # attempts[ch][k] =>
                      log[Len(log)].dest = rows[ch][k].dest]_vars

\* After a retry, the dispatcher of the run it started is about to send to
\* the address stored on its row although no contact of the store resolves
\* to that address any more.
C32_Witness ==
  \E r \in DOMAIN disp :
    LET d == disp[r][EMAIL]
    IN  /\ r > 1
        /\ retries > 0
        /\ d.pc = "send"
        /\ d.dests[d.i] = rows[EMAIL][d.groups[d.i][1]].dest
        /\ \A k \in DOMAIN residences :
             get_recipient_email(residences[k]) # d.dests[d.i]

\* ------------------------------------------------------------------
\* The step in which the dispatcher of run r for channel ch updates a counter.
CountStep(r, ch) == disp[r][ch].pc = "count" /\ disp'[r][ch].pc # "count"

\* C33: the email dispatcher has one destination per pending row, also when
\* two rows hold the same address: each of its sends is an attempt for one
\* row, each counter update adds 1 to the sent counter after a send that
\* returned and 1 to the failed counter after one that raised, and when it
\* has ended every row was attempted once and has the status of its own send.
C33_EmailNotGrouped ==
  /\ [](\A r \in DOMAIN disp :
          LET d == disp[r][EMAIL]
          IN  (d.pc \notin {"off", "fetch"} /\ d.out # "abort") =>
                /\ \A m \in DOMAIN d.groups : Len(d.groups[m]) = 1
                /\ \A m, o \in DOMAIN d.groups : m # o => d.groups[m] # d.groups[o]
                /\ d.pc = "done" =>
                     /\ Len(Sends(d.log)) = Len(d.groups)
                     /\ \A m \in DOMAIN d.groups :
                          /\ attempts[EMAIL][d.groups[m][1]] = 1
                          /\ rows[EMAIL][d.groups[m][1]].status = StatusOf(Sends(d.log)[m].out))
  /\ [][\A r \in DOMAIN disp :
          /\ SendStep(r, EMAIL) =>
               Cardinality({ k \in DOMAIN attempts[EMAIL] :
                               attempts'[EMAIL][k] # attempts[EMAIL][k] }) = 1
          /\ CountStep(r, EMAIL) =>
               IF disp[r][EMAIL].out = "ok"
               THEN /\ job'.email_sent_count = job.email_sent_count + 1
                    /\ job'.email_failed_count = job.email_failed_count
               ELSE /\ job'.email_sent_count = job.email_sent_count
                    /\ job'.email_failed_count = job.email_failed_count + 1]_vars

\* Two recipients of a job hold the same address; the email dispatcher has
\* ended after a send for each of them, of which the first returned and the
\* second raised: one is sent, the other failed, and each counter stands at
\* what the sends gave.
C33_Witness ==
  \E r \in DOMAIN disp : \E k, o \in DOMAIN rows[EMAIL] :
    /\ disp[r][EMAIL].pc = "done"
    /\ k < o
    /\ rows[EMAIL][k].dest = rows[EMAIL][o].dest
    /\ rows[EMAIL][k].status = SENT
    /\ rows[EMAIL][o].status = FAILED
    /\ Cardinality(SendsTo(disp[r][EMAIL].log, rows[EMAIL][k].dest)) = 2

\* ------------------------------------------------------------------
\* C34: each counter update of the SMS dispatcher adds the number of
\* recipients that hold the number just attempted to sms_sent_count after a
\* send that returned and to sms_failed_count after one that raised, and
\* leaves the other counter; so when an uninterrupted SMS dispatcher has
\* ended, sms_sent_count + sms_failed_count has grown from 0 to the number of
\* recipients of its snapshot, which the number of distinct numbers can be
\* below.
C34_SmsCountsRecipients ==
  /\ [](\A r \in DOMAIN disp :
          LET d == disp[r][SMS]
          IN  (d.pc = "done" /\ d.out # "abort") =>
                /\ job.sms_sent_count + job.sms_failed_count = Cardinality(SnapshotRows(d))
                /\ Cardinality(SnapshotRows(d)) = Len(rows[SMS])
                /\ Len(d.dests) <= Cardinality(SnapshotRows(d)))
  /\ [][\A r \in DOMAIN disp :
          CountStep(r, SMS) =>
            LET n == Cardinality({ k \in DOMAIN rows[SMS] :
                                     rows[SMS][k].dest = disp[r][SMS].dests[disp[r][SMS].i] })
            IN  IF disp[r][SMS].out = "ok"
                THEN /\ job'.sms_sent_count = job.sms_sent_count + n
                     /\ job'.sms_failed_count = job.sms_failed_count
                ELSE /\ job'.sms_sent_count = job.sms_sent_count
                     /\ job'.sms_failed_count = job.sms_failed_count + n]_vars

\* The SMS dispatcher has ended after a send that returned for a number two
\* recipients share and a send that raised for another number two recipients
\* share: both counters stand at 2 or more, and their sum is the number of
\* recipients, above the number of sends.
C34_Witness ==
  \E r \in DOMAIN disp :
    LET d == disp[r][SMS]
    IN  /\ d.pc = "done"
        /\ job.sms_sent_count >= 2
        /\ job.sms_failed_count >= 2
        /\ job.sms_sent_count + job.sms_failed_count = Len(rows[SMS])
        /\ Len(Sends(d.log)) < Len(rows[SMS])
        /\ \E m, o \in DOMAIN d.groups :
             /\ Len(d.groups[m]) = 2 /\ Sends(d.log)[m].out = "ok"
             /\ Len(d.groups[o]) = 2 /\ Sends(d.log)[o].out = "err"

\* ------------------------------------------------------------------
\* No dispatcher of any run is at work, and no retry request is half done.
NoDispatcherRunning ==
  /\ \A r \in DOMAIN disp : \A ch \in Channels : disp[r][ch].pc \in {"off", "done"}
  /\ retry.pc = "idle"

RowsWith(ch, status) == Cardinality({ k \in DOMAIN rows[ch] : rows[ch][k].status = status })

\* C35: whenever no dispatcher is at work on the job, each channel's sent
\* counter is the number of its recipients that are sent and its failed
\* counter the number of its recipients that are failed.
C35_CountersMatchRows ==
  NoDispatcherRunning =>
    \A ch \in Channels :
      /\ SentCount(ch) = RowsWith(ch, SENT)
      /\ FailedCount(ch) = RowsWith(ch, FAILED)

\* ------------------------------------------------------------------
\* The step in which run r, which has passed its status check, returns.
ReturnStep(r) == runs[r].pc \in {"launch", "join", "fin_save"} /\ runs'[r].pc = "done"

Thread(ch) ==
  \E r \in DOMAIN runs : DispatcherStep(r, ch) \/ (ch = SMS /\ BackendError(r))

\* One run under every transport configuration, with the orchestrator thread
\* and each dispatcher thread scheduled again and again while it can take a
\* step; every transport call returns or raises.  Database errors may occur
\* but need not.
SpecFair ==
  /\ SpecConfig
  /\ WF_vars(Orchestrate)
  /\ \A ch \in Channels : WF_vars(Thread(ch))

RunAt(r, pc) == r \in DOMAIN runs /\ runs[r].pc = pc

DispatcherAt(r, ch, pc) == r \in DOMAIN disp /\ disp[r][ch].pc = pc

\* C37: a dispatcher never issues more sends than its snapshot has
\* destinations; every dispatcher that was launched ends; a run that has
\* launched its dispatchers comes to the point where all of them have ended
\* and finalize_job begins, and every run that was started returns.
C37_Terminates ==
  /\ [](\A r \in DOMAIN disp : \A ch \in Channels :
          Len(Sends(disp[r][ch].log)) <= Len(disp[r][ch].dests))
  /\ \A ch \in Channels : DispatcherAt(1, ch, "fetch") ~> DispatcherAt(1, ch, "done")
  /\ RunAt(1, "join") ~> (RunAt(1, "join") /\ Joined(1))
  /\ RunAt(1, "lock") ~> RunAt(1, "done")

\* The run has returned after both dispatchers sent once to each of their
\* destinations: two email recipients with a send each, two SMS recipients
\* that share the one send to their number.
C37_Witness ==
  /\ RunAt(1, "done")
  /\ job.status = COMPLETED
  /\ Len(rows[EMAIL]) = MaxResidences
  /\ Len(rows[SMS]) = MaxResidences
  /\ \A ch \in Channels : \A k \in DOMAIN rows[ch] : attempts[ch][k] = 1

\* ------------------------------------------------------------------
\* C38: every recipient row has the fields that go with its status: no error
\* text and no sent time while pending, a sent time and no error text when
\* sent, no sent time when failed.
C38_RowFieldsMatchStatus ==
  \A ch \in Channels : \A k \in DOMAIN rows[ch] :
    LET row == rows[ch][k]
    IN  /\ row.status = PENDING => (row.error_message = "" /\ row.sent_at = NULL)
        /\ row.status = SENT => (row.sent_at # NULL /\ row.error_message = "")
        /\ row.status = FAILED => row.sent_at = NULL

\* ------------------------------------------------------------------
\* A step of the retry handler after its early return: one of its two row
\* updates or its save of the job.
RetryStep == retry.pc \in {"reset_email", "reset_sms", "save"} /\ retry'.pc # retry.pc

\* What retry counted for a channel when it began.
CountedFailed(ch) == IF ch = EMAIL THEN retry.email_failed ELSE retry.sms_failed

\* C39: no step of retry changes a recipient row that is sent or pending, or
\* a sent counter or a total of either channel; and a channel for which retry
\* counted no failed recipient has after each step of retry the failed
\* counter that the store held before it, whatever that value is.
C39_RetryFrame ==
  [][RetryStep =>
       /\ \A ch \in Channels : \A k \in DOMAIN rows[ch] :
            rows[ch][k].status \in {SENT, PENDING} => rows'[ch][k] = rows[ch][k]
       /\ \A ch \in Channels :
            /\ SentCount(ch)' = SentCount(ch)
            /\ TotalOf(ch)' = TotalOf(ch)
            /\ CountedFailed(ch) = 0 => FailedCount(ch)' = FailedCount(ch)
       /\ job'.sent_count = job.sent_count
       /\ job'.total_recipients = job.total_recipients]_vars

\* The retry has answered 200: it found no failed email recipient and two
\* failed SMS recipients, made these pending and set their counter to 0; the
\* email failed counter, which an interrupted retry had left behind its rows,
\* still has its value, and the sent recipients and counters are as before.
C39_Witness ==
  /\ retry.resp = "200"
  /\ job.status = PROCESSING
  /\ job.email_failed_count > 0
  /\ RowsWith(EMAIL, FAILED) = 0
  /\ job.sms_failed_count = 0
  /\ RowsWith(SMS, PENDING) = MaxResidences
  /\ runs[Len(runs)].pc = "lock"

\* ------------------------------------------------------------------
\* C40: the legacy aggregate fields of the job are at every moment those of
\* the email channel: total_recipients is email_total_recipients, sent_count
\* is email_sent_count and failed_count is email_failed_count.
C40_LegacyMirrorsEmail ==
  /\ job.total_recipients = job.email_total_recipients
  /\ job.sent_count = job.email_sent_count
  /\ job.failed_count = job.email_failed_count

\* A job of both channels after a retry was accepted: one email recipient is
\* sent and one has failed again, both SMS recipients are sent; the legacy
\* aggregates are 2, 1 and 1 as the email counters are, not the SMS ones.
C40_Witness ==
  /\ retry.resp = "200"
  /\ job.total_recipients = MaxResidences
  /\ job.sent_count = 1
  /\ job.failed_count = 1
  /\ job.sms_sent_count = MaxResidences
  /\ job.sms_failed_count = 0

====
